---- MODULE Spec2Model ----
(***************************************************************************)
(* A model of the airport API: the REST handlers of airport/views.py, the  *)
(* permission classes of airport/permissions.py, the serializer validation *)
(* of airport/serializers.py and the model-level validation and database   *)
(* constraints of airport/models.py.                                       *)
(*                                                                         *)
(* Time is counted in minutes.  A response is recorded in resp; resp.seq   *)
(* flips on every request, so that two identical requests in a row are two *)
(* distinguishable steps.                                                  *)
(***************************************************************************)
EXTENDS Integers, Sequences, FiniteSets, TLC

VARIABLES now, airports, routes, airplanes, flights, orders, tickets, resp, tx,
          airplane_types, crew, cache, users

vars == <<now, airports, routes, airplanes, flights, orders, tickets, resp, tx,
          airplane_types, crew, cache, users>>

(***************************************************************************)
(* Bounds of the model.                                                    *)
(***************************************************************************)
MaxRows == 2
MaxSeats == 1
MaxNow == 1
MaxTickets == 2
MaxOrders == 4
MaxAirports == 3
MaxRoutes == 2
MaxCatalog == 2
MaxAirplanes == 3
MaxUsers == 4
MaxOrderTickets == 2

(***************************************************************************)
(* Program constants.                                                      *)
(***************************************************************************)
MinimumTimeBeforeDeparture == 10
MaxDistance == 20000

(***************************************************************************)
(* Universes of identifiers and request inputs.                            *)
(***************************************************************************)
Actors == {"anon", "user1", "user2", "admin"}
AirplaneIds == {1, 2}
FlightIds == {1, 2, 3}
AirportIds == 1 .. MaxAirports
RouteIds == 1 .. MaxRoutes
Procs == {"p1", "p2"}
AirplaneTypeNames == 1 .. MaxCatalog
CrewIds == 1 .. MaxCatalog
CrewNames == {"a", "b"}
RowInputs == 0 .. (MaxRows + 1)
SeatInputs == 0 .. (MaxSeats + 1)
TimePoints == {1, MinimumTimeBeforeDeparture + 1, MinimumTimeBeforeDeparture + 2}

is_authenticated(actor) == actor # "anon"
is_staff(actor) == actor = "admin"

SAFE_METHODS == {"GET", "HEAD", "OPTIONS"}

(***************************************************************************)
(* airport/permissions.py                                                  *)
(***************************************************************************)
\* IsAdminOrReadOnly as its docstring words it: staff may do everything
\* except DELETE.
IsAdminOrReadOnly_no_delete(actor, method) ==
    IF method \in SAFE_METHODS THEN TRUE
    ELSE is_staff(actor) /\ method # "DELETE"

IsAdminOrReadOnly(actor, method) ==
    IF method \in SAFE_METHODS THEN TRUE ELSE is_staff(actor)

\* IsAdminOrAuthenticatedReadOnly without the check that turns anonymous
\* requests away.
IsAdminOrAuthenticatedReadOnly_open(actor, method) ==
    IF is_staff(actor) THEN method # "DELETE"
    ELSE method \in SAFE_METHODS

\* IsAdminOrAuthenticatedReadOnly letting authenticated users create.
IsAdminOrAuthenticatedReadOnly_create(actor, method) ==
    IF ~is_authenticated(actor) THEN FALSE
    ELSE IF is_staff(actor) THEN method # "DELETE"
    ELSE method \in (SAFE_METHODS \cup {"POST"})

\* IsAdminOrAuthenticatedReadOnly without the exception of DELETE for staff.
IsAdminOrAuthenticatedReadOnly_delete(actor, method) ==
    IF ~is_authenticated(actor) THEN FALSE
    ELSE IF is_staff(actor) THEN TRUE
    ELSE method \in SAFE_METHODS

IsAdminOrAuthenticatedReadOnly(actor, method) ==
    IF ~is_authenticated(actor) THEN FALSE
    ELSE IF is_staff(actor) THEN method # "DELETE"
    ELSE method \in SAFE_METHODS

IsAdminOrAuthenticatedCreateOnly(actor, method) ==
    IF ~is_authenticated(actor) THEN FALSE
    ELSE IF is_staff(actor) THEN method # "DELETE"
    ELSE method \in (SAFE_METHODS \cup {"POST"})

\* The answer to a request the permission class refuses: 401 for a request
\* that carries no credentials, 403 for an authenticated one.
Denied(actor) == IF is_authenticated(actor) THEN "forbidden" ELSE "unauthenticated"

(***************************************************************************)
(* Results of a validation step: it passes, raises a ValidationError keyed *)
(* by a field, or raises another exception (which the view does not catch  *)
(* and the framework answers with a server error).                         *)
(***************************************************************************)
NoError == [kind |-> "ok", field |-> "", code |-> "", max |-> 0]
Invalid(field, code, max) ==
    [kind |-> "invalid", field |-> field, code |-> code, max |-> max]
Raise(exception) ==
    [kind |-> "raise", field |-> "", code |-> exception, max |-> 0]

NoKey == <<>>
NoResp ==
    [seq |-> 0, op |-> "none", actor |-> "anon", status |-> "none",
     field |-> "", code |-> "", max |-> 0, idx |-> 0, key |-> NoKey, result |-> {}]

Reply(op, actor, status, err, idx, key) ==
    [seq |-> 1 - resp.seq, op |-> op, actor |-> actor, status |-> status,
     field |-> err.field, code |-> err.code, max |-> err.max, idx |-> idx,
     key |-> key, result |-> {}]

\* The answer to a read: the rows the response body holds.
ReplyRows(op, actor, status, key, rows) ==
    [Reply(op, actor, status, NoError, 0, key) EXCEPT !.result = rows]

(***************************************************************************)
(* airport/signals.py: the post_save and post_delete receivers.  cache is   *)
(* the set of view namespaces that hold cached entries; delete_pattern      *)
(* empties the namespaces its pattern matches.                              *)
(***************************************************************************)
Namespaces ==
    {"airport_view", "airplane_type_view", "airplane_view", "crew_view",
     "route_view", "flight_view", "order_view", "ticket_view"}

invalidate_airport_cache(c) == c \ {"airport_view"}
invalidate_airplane_type_cache(c) == c \ {"airplane_type_view", "flight_view"}
\* invalidate_airplane_cache without its second delete_pattern.
invalidate_airplane_cache_first(c) == c \ {"airplane_view"}

invalidate_airplane_cache(c) == c \ {"airplane_view", "flight_view"}
invalidate_crew_cache(c) == c \ {"crew_view", "flight_view"}
invalidate_route_cache(c) == c \ {"route_view"}
invalidate_flight_cache(c) == c \ {"flight_view", "route_view"}
invalidate_order_cache(c) == c \ {"order_view", "ticket_view"}
invalidate_ticket_cache(c) == c \ {"ticket_view", "flight_view"}

(***************************************************************************)
(* airport/models.py: Ticket                                               *)
(***************************************************************************)
\* validate_ticket_position with the range test starting at 0 instead of 1.
validate_ticket_position_from_zero(row, seat, airplane) ==
    IF ~(0 <= row /\ row <= airplane.rows)
    THEN Invalid("row", "range", airplane.rows)
    ELSE IF ~(0 <= seat /\ seat <= airplane.seats_in_row)
    THEN Invalid("seat", "range", airplane.seats_in_row)
    ELSE NoError

\* Ticket.validate_ticket_position: the checks are tried in list order and
\* the first one that fails raises.
validate_ticket_position(row, seat, airplane) ==
    LET validations == << <<row, airplane.rows, "row">>,
                          <<seat, airplane.seats_in_row, "seat">> >>
        failing == {i \in DOMAIN validations :
                      ~(1 <= validations[i][1]
                        /\ validations[i][1] <= validations[i][2])}
    IN  IF failing = {} THEN NoError
        ELSE LET i == CHOOSE j \in failing : \A k \in failing : j <= k
             IN  Invalid(validations[i][3], "range", validations[i][2])

\* Ticket.clean: the position, then "already departed", then the lead time.
Ticket_clean(row, seat, departure_time, airplane, t) ==
    LET position == validate_ticket_position(row, seat, airplane)
    IN  IF position.kind # "ok" THEN position
        ELSE IF departure_time <= t THEN Invalid("flight", "departed", 0)
        ELSE IF departure_time <= t + MinimumTimeBeforeDeparture
        THEN Invalid("flight", "too_soon", 0)
        ELSE NoError

\* Ticket.Meta: UniqueConstraint(flight, row, seat), name unique_flight_seat.
SeatTaken(ts, flight, row, seat) ==
    \E t \in ts : t.flight = flight /\ t.row = row /\ t.seat = seat

unique_flight_seat(ts) ==
    \A t1, t2 \in ts :
        (t1.flight = t2.flight /\ t1.row = t2.row /\ t1.seat = t2.seat) => t1 = t2

NewTicket(row, seat, flight, order) ==
    [flight |-> flight, row |-> row, seat |-> seat, order |-> order]

(***************************************************************************)
(* airport/serializers.py: TicketSerializer, OrderSerializer               *)
(***************************************************************************)
\* TicketSerializer.validate: its first statement calls Ticket.validate_ticket,
\* an attribute the Ticket class does not define (the static method is named
\* validate_ticket_position), so the call raises AttributeError whatever the
\* arguments are; the checks after it are never reached.
TicketSerializer_validate(row, seat, departure_time, airplane, t) ==
    Raise("AttributeError")

\* One ticket payload through TicketSerializer.run_validation: the fields
\* (the flight must exist), then the validator the serializer derives from
\* unique_flight_seat, then validate().
TicketSerializer_run_validation(data) ==
    IF data.flight \notin DOMAIN flights
    THEN Invalid("flight", "does_not_exist", 0)
    ELSE IF SeatTaken(tickets, data.flight, data.row, data.seat)
    THEN Invalid("non_field_errors", "unique", 0)
    ELSE TicketSerializer_validate(
             data.row, data.seat, flights[data.flight].departure_time,
             airplanes[flights[data.flight].airplane], now)

\* OrderSerializer validation: tickets is a list field with allow_empty=False
\* whose items are validated in order.  An exception other than a
\* ValidationError leaves the loop at once; ValidationErrors are collected
\* and reported by position.
OrderSerializer_is_valid(tickets_data) ==
    IF Len(tickets_data) = 0
    THEN [kind |-> "invalid", idx |-> 0, err |-> Invalid("tickets", "empty", 0)]
    ELSE LET res == [i \in DOMAIN tickets_data |->
                        TicketSerializer_run_validation(tickets_data[i])]
             raising == {i \in DOMAIN res : res[i].kind = "raise"}
             bad == {i \in DOMAIN res : res[i].kind = "invalid"}
             first(S) == CHOOSE j \in S : \A k \in S : j <= k
         IN  IF raising # {}
             THEN [kind |-> "raise", idx |-> first(raising),
                   err |-> res[first(raising)]]
             ELSE IF bad # {}
             THEN [kind |-> "invalid", idx |-> first(bad), err |-> res[first(bad)]]
             ELSE [kind |-> "ok", idx |-> 0, err |-> NoError]

\* A fresh primary key for a new order row.
NewOrderId(os) ==
    IF DOMAIN os = {} THEN 1
    ELSE 1 + CHOOSE m \in DOMAIN os : \A o \in DOMAIN os : o <= m

\* The inserts of OrderSerializer.create, in payload order, into the ticket
\* table ts: the result is the new table, or "IntegrityError" at the first
\* insert that violates unique_flight_seat.
RECURSIVE InsertTickets(_, _, _, _)
InsertTickets(ts, order, tickets_data, i) ==
    IF i > Len(tickets_data) THEN [ok |-> TRUE, tickets |-> ts]
    ELSE LET d == tickets_data[i]
         IN  IF SeatTaken(ts, d.flight, d.row, d.seat)
             THEN [ok |-> FALSE, tickets |-> ts]
             ELSE InsertTickets(ts \cup {NewTicket(d.row, d.seat, d.flight, order)},
                                order, tickets_data, i + 1)

\* Leaving the transaction.atomic() block without its rollback: what the
\* request wrote stays.
transaction_autocommit(os, ts, order) == [orders |-> os, tickets |-> ts]

\* Leaving the transaction.atomic() block of OrderSerializer.create by an
\* exception: every row the block wrote (the order and its tickets) is undone.
transaction_atomic(os, ts, order) ==
    [orders |-> [o \in DOMAIN os \ {order} |-> os[o]],
     tickets |-> {t \in ts : t.order # order}]

\* OrderSerializer.create run alone: the order row, then one ticket row per
\* payload item, all inside transaction.atomic().
OrderSerializer_create(user, tickets_data) ==
    LET order == NewOrderId(orders)
        written == orders @@ (order :> [user |-> user])
        done == InsertTickets(tickets, order, tickets_data, 1)
        undone == transaction_atomic(written, done.tickets, order)
    IN  IF done.ok
        THEN [ok |-> TRUE, orders |-> written, tickets |-> done.tickets]
        ELSE [ok |-> FALSE, orders |-> undone.orders, tickets |-> undone.tickets]

TicketInputs ==
    [flight : FlightIds,
     row : 1 .. (MaxRows + 1), seat : 1 .. (MaxSeats + 1)]

OrderPayloads ==
    UNION {[1 .. n -> TicketInputs] : n \in 0 .. MaxOrderTickets}

KeyOf(d) == <<d.flight, d.row, d.seat>>

PayloadKey(tickets_data) ==
    IF Len(tickets_data) = 1 THEN KeyOf(tickets_data[1]) ELSE NoKey

(***************************************************************************)
(* airport/views.py: OrderViewSet and TicketViewSet, create                *)
(***************************************************************************)
\* POST /orders/: permission, OrderSerializer validation, then
\* perform_create -> serializer.save(user=request.user) -> create().
OrderPost(actor, tickets_data) ==
    /\ NewOrderId(orders) <= MaxOrders
    /\ Cardinality(tickets) + Len(tickets_data) <= MaxTickets + MaxOrderTickets
    /\ UNCHANGED <<users, now, airplane_types, crew, airports, routes, airplanes, flights, tx>>
    /\ LET key == PayloadKey(tickets_data)
       IN  IF ~IsAdminOrAuthenticatedCreateOnly(actor, "POST")
           THEN /\ resp' = Reply("order_create", actor, Denied(actor), NoError, 0, key)
                /\ UNCHANGED <<orders, tickets>>
           ELSE LET v == OrderSerializer_is_valid(tickets_data)
                IN  IF v.kind = "raise"
                    THEN /\ resp' = Reply("order_create", actor, "server_error",
                                          v.err, v.idx, key)
                         /\ UNCHANGED <<orders, tickets>>
                    ELSE IF v.kind = "invalid"
                    THEN /\ resp' = Reply("order_create", actor, "invalid",
                                          v.err, v.idx, key)
                         /\ UNCHANGED <<orders, tickets>>
                    ELSE LET saved == OrderSerializer_create(actor, tickets_data)
                         IN  /\ orders' = saved.orders
                             /\ tickets' = saved.tickets
                             /\ resp' = Reply("order_create", actor,
                                              IF saved.ok THEN "created"
                                                          ELSE "server_error",
                                              IF saved.ok THEN NoError
                                                          ELSE Raise("IntegrityError"),
                                              0, key)
    /\ cache' = IF /\ IsAdminOrAuthenticatedCreateOnly(actor, "POST")
                    /\ OrderSerializer_is_valid(tickets_data).kind = "ok"
                 THEN IF InsertTickets(tickets, NewOrderId(orders), tickets_data, 1).tickets
                             # tickets
                      THEN invalidate_ticket_cache(invalidate_order_cache(cache))
                      ELSE invalidate_order_cache(cache)
                 ELSE cache

\* POST /tickets/: permission, TicketSerializer validation, then
\* perform_create, which reads validated_data["order"].  The serializer has
\* no order field, so the lookup raises KeyError; perform_create never
\* calls serializer.save().
TicketViewSet_perform_create(actor) == Raise("KeyError")

TicketPost(actor, data) ==
    /\ UNCHANGED <<users, now, airplane_types, crew, cache, airports, routes, airplanes, flights, orders, tickets, tx>>
    /\ IF ~IsAdminOrAuthenticatedCreateOnly(actor, "POST")
       THEN resp' = Reply("ticket_create", actor, Denied(actor), NoError, 0, KeyOf(data))
       ELSE LET v == TicketSerializer_run_validation(data)
            IN  IF v.kind = "invalid"
                THEN resp' = Reply("ticket_create", actor, "invalid", v, 0, KeyOf(data))
                ELSE IF v.kind = "raise"
                THEN resp' = Reply("ticket_create", actor, "server_error", v, 0,
                                   KeyOf(data))
                ELSE resp' = Reply("ticket_create", actor, "server_error",
                                   TicketViewSet_perform_create(actor), 0, KeyOf(data))

(***************************************************************************)
(* OrderSerializer.create statement by statement, for requests that run    *)
(* at the same time on separate database connections.  tx.conn[p] is the   *)
(* position of request p inside create(); tx.requests remembers, for each  *)
(* order id, the ticket payload of the request that wrote the order row.   *)
(* Rows written inside an open transaction.atomic() block are in the       *)
(* tables but not yet committed.                                           *)
(***************************************************************************)
Idle == [pc |-> "idle", user |-> "anon", order |-> 0, tickets_data |-> <<>>, i |-> 0]

InTransaction(p) == tx.conn[p].pc = "open"

\* The open transactions, other than p's, that hold an uncommitted row with
\* the key p is about to insert: the insert waits for them to end.
WaitsFor(p) ==
    IF ~InTransaction(p) \/ tx.conn[p].i > Len(tx.conn[p].tickets_data) THEN {}
    ELSE LET d == tx.conn[p].tickets_data[tx.conn[p].i]
         IN  {q \in Procs \ {p} :
                 /\ InTransaction(q)
                 /\ NewTicket(d.row, d.seat, d.flight, tx.conn[q].order) \in tickets}

\* create() is left by an exception: the atomic block undoes the writes and
\* the exception, which the view does not catch, becomes a server error.
CreateFails(p, exception) ==
    LET c == tx.conn[p]
        undone == transaction_atomic(orders, tickets, c.order)
    IN  /\ orders' = undone.orders
        /\ tickets' = undone.tickets
        /\ tx' = [tx EXCEPT !.conn[p] = Idle]
        /\ cache' = cache
        /\ resp' = Reply("order_create", c.user, "server_error", Raise(exception),
                         c.i, PayloadKey(c.tickets_data))

\* validated_data.pop("tickets"); Order.objects.create(**validated_data).
CreateBegin(p, user, tickets_data) ==
    /\ ~InTransaction(p)
    /\ NewOrderId(orders) <= MaxOrders
    /\ LET order == NewOrderId(orders)
       IN  /\ orders' = orders @@ (order :> [user |-> user])
           /\ tx' = [conn |-> [tx.conn EXCEPT ![p] =
                                  [pc |-> "open", user |-> user, order |-> order,
                                   tickets_data |-> tickets_data, i |-> 1]],
                     requests |-> (order :> tickets_data) @@ tx.requests]
    /\ UNCHANGED <<users, now, airplane_types, crew, airports, routes, airplanes, flights, tickets, resp>>
    /\ cache' = invalidate_order_cache(cache)

\* One pass of the loop: Ticket.objects.create(order=order, **ticket_data).
CreateInsert(p) ==
    /\ InTransaction(p)
    /\ tx.conn[p].i <= Len(tx.conn[p].tickets_data)
    /\ WaitsFor(p) = {}
    /\ UNCHANGED <<users, now, airplane_types, crew, airports, routes, airplanes, flights>>
    /\ LET c == tx.conn[p]
           d == c.tickets_data[c.i]
       IN  IF SeatTaken(tickets, d.flight, d.row, d.seat)
           THEN CreateFails(p, "IntegrityError")
           ELSE /\ tickets' = tickets \cup {NewTicket(d.row, d.seat, d.flight, c.order)}
                /\ tx' = [tx EXCEPT !.conn[p].i = @ + 1]
                /\ cache' = invalidate_ticket_cache(cache)
                /\ UNCHANGED <<orders, resp>>

\* The loop is over: the atomic block commits and create() returns the order.
CreateCommit(p) ==
    /\ InTransaction(p)
    /\ tx.conn[p].i > Len(tx.conn[p].tickets_data)
    /\ tx' = [tx EXCEPT !.conn[p] = Idle]
    /\ resp' = Reply("order_create", tx.conn[p].user, "created", NoError, 0,
                     PayloadKey(tx.conn[p].tickets_data))
    /\ UNCHANGED <<users, now, airplane_types, crew, cache, airports, routes, airplanes, flights, orders, tickets>>

\* Two requests wait for each other's rows: the database ends one of them
\* with an error, which leaves create() like any other exception.
CreateDeadlock(p) ==
    /\ \E q \in WaitsFor(p) : p \in WaitsFor(q)
    /\ UNCHANGED <<users, now, airplane_types, crew, airports, routes, airplanes, flights>>
    /\ CreateFails(p, "OperationalError")

(***************************************************************************)
(* airport/views.py: TicketViewSet, update.                                *)
(***************************************************************************)
TicketFields == {"row", "seat", "flight"}

TicketData ==
    UNION {{d \in [S -> 1 .. (MaxRows + MaxSeats + 1)] :
               /\ ("row" \in S) => d["row"] <= MaxRows + 1
               /\ ("seat" \in S) => d["seat"] <= MaxSeats + 1
               /\ ("flight" \in S) => d["flight"] \in FlightIds} :
           S \in SUBSET TicketFields}

(***************************************************************************)
(* The model-level write path: Ticket(...).full_clean() and save(), as the *)
(* admin site registered in airport/admin.py and the model tests use it.   *)
(* full_clean runs clean() and then the uniqueness check, which is skipped *)
(* for fields clean() has already rejected.                                *)
(***************************************************************************)
Ticket_full_clean_save(row, seat, flight, order) ==
    /\ flight \in DOMAIN flights
    /\ order \in DOMAIN orders
    /\ UNCHANGED <<users, now, airplane_types, crew, airports, routes, airplanes, flights, orders, tx>>
    /\ LET key == <<flight, row, seat>>
           e == Ticket_clean(row, seat, flights[flight].departure_time,
                             airplanes[flights[flight].airplane], now)
       IN  IF e.kind # "ok"
           THEN /\ resp' = Reply("ticket_full_clean_save", "admin", "invalid", e, 0, key)
                /\ UNCHANGED tickets
           ELSE IF SeatTaken(tickets, flight, row, seat)
           THEN /\ resp' = Reply("ticket_full_clean_save", "admin", "invalid",
                                 Invalid("__all__", "unique", 0), 0, key)
                /\ UNCHANGED tickets
           ELSE /\ Cardinality(tickets) < MaxTickets
                /\ tickets' = tickets \cup {NewTicket(row, seat, flight, order)}
                /\ resp' = Reply("ticket_full_clean_save", "admin", "created",
                                 NoError, 0, key)
    /\ cache' = IF resp'.status \in {"created", "ok"} THEN invalidate_ticket_cache(cache) ELSE cache

(***************************************************************************)
(* airport/views.py and airport/serializers.py: airplanes and flights.     *)
(* Of an airplane the model keeps rows and seats_in_row, of a flight the   *)
(* airplane and the two times.  The data of a write request is a function  *)
(* from the fields the request supplies to their values.                   *)
(***************************************************************************)
AirplaneFields == {"rows", "seats_in_row"}
FlightFields == {"airplane", "departure_time", "arrival_time"}

AirplaneData ==
    UNION {{d \in [S -> 1 .. (MaxRows + MaxSeats)] :
               /\ ("rows" \in S) => d["rows"] <= MaxRows
               /\ ("seats_in_row" \in S) => d["seats_in_row"] <= MaxSeats} :
           S \in SUBSET AirplaneFields}

FlightData ==
    UNION {{d \in [S -> AirplaneIds \cup TimePoints] :
               /\ ("airplane" \in S) => d["airplane"] \in AirplaneIds
               /\ ("departure_time" \in S) => d["departure_time"] \in TimePoints
               /\ ("arrival_time" \in S) => d["arrival_time"] \in TimePoints} :
           S \in SUBSET FlightFields}

\* ModelSerializer.update: the supplied fields overwrite the instance's.
Merge(instance, data) ==
    [k \in DOMAIN instance |-> IF k \in DOMAIN data THEN data[k] ELSE instance[k]]

\* A full write (POST, PUT) must supply every field.
RequiredFields(method, fields, data) ==
    IF method # "PATCH" /\ DOMAIN data # fields
    THEN Invalid(CHOOSE k \in fields : k \notin DOMAIN data, "required", 0)
    ELSE NoError

\* PUT/PATCH /airplane/{id}/: AirplaneSerializer declares no validate().
AirplaneUpdate(actor, method, airplane, data) ==
    /\ UNCHANGED <<users, now, airplane_types, crew, airports, routes, flights, orders, tickets, tx>>
    /\ IF ~IsAdminOrAuthenticatedReadOnly(actor, method)
       THEN /\ resp' = Reply("airplane_update", actor, Denied(actor), NoError, 0, NoKey)
            /\ UNCHANGED airplanes
       ELSE IF airplane \notin DOMAIN airplanes
       THEN /\ resp' = Reply("airplane_update", actor, "not_found", NoError, 0, NoKey)
            /\ UNCHANGED airplanes
       ELSE IF RequiredFields(method, AirplaneFields, data).kind # "ok"
       THEN /\ resp' = Reply("airplane_update", actor, "invalid",
                             RequiredFields(method, AirplaneFields, data), 0, NoKey)
            /\ UNCHANGED airplanes
       ELSE /\ airplanes' = [airplanes EXCEPT ![airplane] = Merge(@, data)]
            /\ resp' = Reply("airplane_update", actor, "ok", NoError, 0, NoKey)
    /\ cache' = IF resp'.status \in {"created", "ok"} THEN invalidate_airplane_cache(cache) ELSE cache

\* FlightSerializer.validate: it reads attrs["arrival_time"] and
\* attrs["departure_time"]; attrs holds only the fields the request supplied,
\* so a partial update without one of them raises KeyError.
FlightSerializer_validate(attrs) ==
    IF "arrival_time" \notin DOMAIN attrs \/ "departure_time" \notin DOMAIN attrs
    THEN Raise("KeyError")
    ELSE IF attrs["arrival_time"] <= attrs["departure_time"]
    THEN Invalid("arrival_time", "order", 0)
    ELSE NoError

FlightSerializer_is_valid(method, data) ==
    IF RequiredFields(method, FlightFields, data).kind # "ok"
    THEN RequiredFields(method, FlightFields, data)
    ELSE FlightSerializer_validate(data)

StatusOf(v) == IF v.kind = "raise" THEN "server_error" ELSE "invalid"

\* POST /flight/.
FlightPost(actor, data) ==
    /\ UNCHANGED <<users, now, airplane_types, crew, airports, routes, airplanes, orders, tickets, tx>>
    /\ \E id \in FlightIds : id \notin DOMAIN flights
    /\ LET v == FlightSerializer_is_valid("POST", data)
           id == CHOOSE i \in FlightIds \ DOMAIN flights :
                     \A j \in FlightIds \ DOMAIN flights : i <= j
       IN  IF ~IsAdminOrReadOnly(actor, "POST")
           THEN /\ resp' = Reply("flight_create", actor, Denied(actor), NoError, 0, NoKey)
                /\ UNCHANGED flights
           ELSE IF v.kind # "ok"
           THEN /\ resp' = Reply("flight_create", actor, StatusOf(v), v, 0, NoKey)
                /\ UNCHANGED flights
           ELSE /\ flights' = flights @@ (id :> data)
                /\ resp' = Reply("flight_create", actor, "created", NoError, 0, NoKey)
    /\ cache' = IF resp'.status \in {"created", "ok"} THEN invalidate_flight_cache(cache) ELSE cache

\* PUT/PATCH /flight/{id}/.
FlightUpdate(actor, method, flight, data) ==
    /\ UNCHANGED <<users, now, airplane_types, crew, airports, routes, airplanes, orders, tickets, tx>>
    /\ LET v == FlightSerializer_is_valid(method, data)
       IN  IF ~IsAdminOrReadOnly(actor, method)
           THEN /\ resp' = Reply("flight_update", actor, Denied(actor), NoError, 0, NoKey)
                /\ UNCHANGED flights
           ELSE IF flight \notin DOMAIN flights
           THEN /\ resp' = Reply("flight_update", actor, "not_found", NoError, 0, NoKey)
                /\ UNCHANGED flights
           ELSE IF v.kind # "ok"
           THEN /\ resp' = Reply("flight_update", actor, StatusOf(v), v, 0, NoKey)
                /\ UNCHANGED flights
           ELSE /\ flights' = [flights EXCEPT ![flight] = Merge(@, data)]
                /\ resp' = Reply("flight_update", actor, "ok", NoError, 0, NoKey)
    /\ cache' = IF resp'.status \in {"created", "ok"} THEN invalidate_flight_cache(cache) ELSE cache

\* PUT/PATCH /ticket/{id}/: the ticket is looked up among the rows the
\* actor may see, then TicketSerializer validates the merged key and calls
\* validate().
TicketUpdate(actor, method, ticket, data) ==
    /\ UNCHANGED <<users, now, airplane_types, crew, cache, airports, routes, airplanes, flights, orders, tickets, tx>>
    /\ LET required == RequiredFields(method, TicketFields, data)
           merged == Merge(ticket, data)
       IN  IF ~IsAdminOrAuthenticatedCreateOnly(actor, method)
           THEN resp' = Reply("ticket_update", actor, Denied(actor), NoError, 0, NoKey)
           ELSE IF ticket \notin tickets
           THEN resp' = Reply("ticket_update", actor, "not_found", NoError, 0, NoKey)
           ELSE IF required.kind # "ok"
           THEN resp' = Reply("ticket_update", actor, "invalid", required, 0, NoKey)
           ELSE IF merged.flight \notin DOMAIN flights
           THEN resp' = Reply("ticket_update", actor, "invalid",
                              Invalid("flight", "does_not_exist", 0), 0, NoKey)
           ELSE IF SeatTaken(tickets \ {ticket}, merged.flight, merged.row, merged.seat)
           THEN resp' = Reply("ticket_update", actor, "invalid",
                              Invalid("non_field_errors", "unique", 0), 0, NoKey)
           ELSE resp' = Reply("ticket_update", actor, "server_error",
                              TicketSerializer_validate(
                                  merged.row, merged.seat,
                                  flights[merged.flight].departure_time,
                                  airplanes[flights[merged.flight].airplane], now),
                              0, NoKey)

(***************************************************************************)
(* airport/models.py, airport/serializers.py, airport/views.py: airports   *)
(* and routes.  An airport is identified by its unique name; of a route    *)
(* the model keeps source, destination and distance.                       *)
(***************************************************************************)
RouteFields == {"source", "destination", "distance"}
Distances == {MaxDistance - 1, MaxDistance, MaxDistance + 1}

RouteData ==
    UNION {{d \in [S -> AirportIds \cup Distances] :
               /\ ("source" \in S) => d["source"] \in AirportIds
               /\ ("destination" \in S) => d["destination"] \in AirportIds
               /\ ("distance" \in S) => d["distance"] \in Distances} :
           S \in SUBSET RouteFields}

\* The unique_route check with the two fields taken in the wrong order
\* (used to show that the uniqueness claims depend on the check).
unique_route_reversed(rs, source, destination, except) ==
    \E r \in DOMAIN rs \ except :
        rs[r].source = destination /\ rs[r].destination = source

\* Route.Meta: UniqueConstraint(source, destination), name unique_route.
\* TRUE when a row other than those in except has the ordered pair.
unique_route(rs, source, destination, except) ==
    \E r \in DOMAIN rs \ except :
        rs[r].source = source /\ rs[r].destination = destination

\* Route.clean: the self-loop check, then the distance check.
Route_clean(source, destination, distance) ==
    IF source = destination THEN Invalid("destination", "self_loop", 0)
    ELSE IF distance > MaxDistance THEN Invalid("distance", "too_long", MaxDistance)
    ELSE NoError

\* RouteSerializer.validate: the same two checks on attrs, which holds only
\* the fields the request supplied; attrs["..."] of a missing one raises
\* KeyError.
RouteSerializer_validate(attrs) ==
    IF "source" \notin DOMAIN attrs \/ "destination" \notin DOMAIN attrs
    THEN Raise("KeyError")
    ELSE IF attrs["source"] = attrs["destination"]
    THEN Invalid("destination", "self_loop", 0)
    ELSE IF "distance" \notin DOMAIN attrs THEN Raise("KeyError")
    ELSE IF attrs["distance"] > MaxDistance
    THEN Invalid("distance", "too_long", MaxDistance)
    ELSE NoError

\* RouteSerializer.run_validation: the fields (required on a full write, the
\* airports must exist), then the validator derived from unique_route on
\* the pair the write would leave, then validate().
RouteSerializer_run_validation(method, except, instance, data) ==
    LET required == RequiredFields(method, RouteFields, data)
        missing == {k \in {"source", "destination"} :
                       k \in DOMAIN data /\ data[k] \notin airports}
        pair == [k \in {"source", "destination"} |->
                    IF k \in DOMAIN data THEN data[k] ELSE instance[k]]
    IN  IF required.kind # "ok" THEN required
        ELSE IF missing # {}
        THEN Invalid(IF "source" \in missing THEN "source" ELSE "destination",
                     "does_not_exist", 0)
        ELSE IF /\ DOMAIN data \cap {"source", "destination"} # {}
                /\ unique_route(routes, pair["source"], pair["destination"], except)
        THEN Invalid("non_field_errors", "unique", 0)
        ELSE RouteSerializer_validate(data)

NewRouteId(rs) ==
    IF DOMAIN rs = {} THEN 1
    ELSE 1 + CHOOSE m \in DOMAIN rs : \A r \in DOMAIN rs : r <= m

\* POST /route/.  The insert itself is subject to unique_route in the
\* database.
RoutePost(actor, data) ==
    /\ UNCHANGED <<users, now, airplane_types, crew, airports, airplanes, flights, orders, tickets, tx>>
    /\ LET v == RouteSerializer_run_validation("POST", {}, data, data)
           key == IF DOMAIN data = RouteFields
                  THEN <<data["source"], data["destination"], data["distance"]>>
                  ELSE NoKey
       IN  IF ~IsAdminOrAuthenticatedReadOnly(actor, "POST")
           THEN /\ resp' = Reply("route_create", actor, Denied(actor), NoError, 0, key)
                /\ UNCHANGED routes
           ELSE IF v.kind # "ok"
           THEN /\ resp' = Reply("route_create", actor, StatusOf(v), v, 0, key)
                /\ UNCHANGED routes
           ELSE IF unique_route(routes, data["source"], data["destination"], {})
           THEN /\ resp' = Reply("route_create", actor, "server_error",
                                 Raise("IntegrityError"), 0, key)
                /\ UNCHANGED routes
           ELSE /\ NewRouteId(routes) \in RouteIds
                /\ routes' = routes @@ (NewRouteId(routes) :> data)
                /\ resp' = Reply("route_create", actor, "created", NoError, 0, key)
    /\ cache' = IF resp'.status \in {"created", "ok"} THEN invalidate_route_cache(cache) ELSE cache

\* PUT/PATCH /route/{id}/.
RouteUpdate(actor, method, route, data) ==
    /\ UNCHANGED <<users, now, airplane_types, crew, airports, airplanes, flights, orders, tickets, tx>>
    /\ IF ~IsAdminOrAuthenticatedReadOnly(actor, method)
       THEN /\ resp' = Reply("route_update", actor, Denied(actor), NoError, 0, NoKey)
            /\ UNCHANGED routes
       ELSE IF route \notin DOMAIN routes
       THEN /\ resp' = Reply("route_update", actor, "not_found", NoError, 0, NoKey)
            /\ UNCHANGED routes
       ELSE LET v == RouteSerializer_run_validation(method, {route}, routes[route], data)
            IN  IF v.kind # "ok"
                THEN /\ resp' = Reply("route_update", actor, StatusOf(v), v, 0, NoKey)
                     /\ UNCHANGED routes
                ELSE /\ routes' = [routes EXCEPT ![route] = Merge(@, data)]
                     /\ resp' = Reply("route_update", actor, "ok", NoError, 0, NoKey)
    /\ cache' = IF resp'.status \in {"created", "ok"} THEN invalidate_route_cache(cache) ELSE cache

\* The model-level write path of a route: Route(...).full_clean() and
\* save(); full_clean runs clean() and then the constraint check.
Route_full_clean_save(source, destination, distance) ==
    /\ UNCHANGED <<users, now, airplane_types, crew, airports, airplanes, flights, orders, tickets, tx>>
    /\ LET e == Route_clean(source, destination, distance)
       IN  IF e.kind # "ok"
           THEN /\ resp' = Reply("route_full_clean_save", "admin", "invalid", e, 0, NoKey)
                /\ UNCHANGED routes
           ELSE IF unique_route(routes, source, destination, {})
           THEN /\ resp' = Reply("route_full_clean_save", "admin", "invalid",
                                 Invalid("__all__", "unique", 0), 0, NoKey)
                /\ UNCHANGED routes
           ELSE /\ NewRouteId(routes) \in RouteIds
                /\ routes' = routes @@ (NewRouteId(routes) :>
                                 [source |-> source, destination |-> destination,
                                  distance |-> distance])
                /\ resp' = Reply("route_full_clean_save", "admin", "created",
                                 NoError, 0, NoKey)
    /\ cache' = IF resp'.status \in {"created", "ok"} THEN invalidate_route_cache(cache) ELSE cache

\* GET /airport/ and GET /airport/{id}/.
AirportRead(actor) ==
    /\ UNCHANGED <<users, now, airplane_types, crew, cache, airports, routes, airplanes, flights, orders, tickets, tx>>
    /\ resp' = Reply("airport_read", actor,
                     IF IsAdminOrAuthenticatedReadOnly(actor, "GET")
                     THEN "ok" ELSE Denied(actor),
                     NoError, 0, NoKey)

\* POST /airport/: Airport.name is unique.
AirportPost(actor, name) ==
    /\ UNCHANGED <<users, now, airplane_types, crew, routes, airplanes, flights, orders, tickets, tx>>
    /\ IF ~IsAdminOrAuthenticatedReadOnly(actor, "POST")
       THEN /\ resp' = Reply("airport_create", actor, Denied(actor), NoError, 0, NoKey)
            /\ UNCHANGED airports
       ELSE IF name \in airports
       THEN /\ resp' = Reply("airport_create", actor, "invalid",
                             Invalid("name", "unique", 0), 0, NoKey)
            /\ UNCHANGED airports
       ELSE /\ airports' = airports \cup {name}
            /\ resp' = Reply("airport_create", actor, "created", NoError, 0, NoKey)
    /\ cache' = IF resp'.status \in {"created", "ok"} THEN invalidate_airport_cache(cache) ELSE cache

\* GET /order/: the list is the actor's own orders, every order for staff.
OrderRead(actor) ==
    /\ UNCHANGED <<users, now, airplane_types, crew, cache, airports, routes, airplanes, flights, orders, tickets, tx>>
    /\ resp' = Reply("order_read", actor,
                     IF IsAdminOrAuthenticatedCreateOnly(actor, "GET")
                     THEN "ok" ELSE Denied(actor),
                     NoError, 0, NoKey)

(***************************************************************************)
(* airport/views.py: the other writes of the catalogue (Airport,           *)
(* AirplaneType, Airplane, Crew) and DELETE.  An airplane type, like an    *)
(* airport, is identified by its unique name; of a crew member the model   *)
(* keeps the last name.                                                    *)
(***************************************************************************)
NameData(names) == UNION {[S -> names] : S \in SUBSET {"name"}}
CrewData == UNION {[S -> CrewNames] : S \in SUBSET {"last_name"}}

NewId(rows) ==
    IF DOMAIN rows = {} THEN 1
    ELSE 1 + CHOOSE m \in DOMAIN rows : \A r \in DOMAIN rows : r <= m

\* A foreign key to an airport follows the row when the airport is renamed.
Renamed(airport, old, new) == IF airport = old THEN new ELSE airport

\* PUT/PATCH /airport/{id}/.
AirportUpdate(actor, method, airport, data) ==
    /\ UNCHANGED <<users, now, airplane_types, crew, airplanes, flights, orders, tickets, tx>>
    /\ LET required == RequiredFields(method, {"name"}, data)
           name == IF "name" \in DOMAIN data THEN data["name"] ELSE airport
       IN  IF ~IsAdminOrAuthenticatedReadOnly(actor, method)
           THEN /\ resp' = Reply("airport_update", actor, Denied(actor), NoError, 0, NoKey)
                /\ UNCHANGED <<airports, routes>>
           ELSE IF airport \notin airports
           THEN /\ resp' = Reply("airport_update", actor, "not_found", NoError, 0, NoKey)
                /\ UNCHANGED <<airports, routes>>
           ELSE IF required.kind # "ok"
           THEN /\ resp' = Reply("airport_update", actor, "invalid", required, 0, NoKey)
                /\ UNCHANGED <<airports, routes>>
           ELSE IF name \in airports \ {airport}
           THEN /\ resp' = Reply("airport_update", actor, "invalid",
                                 Invalid("name", "unique", 0), 0, NoKey)
                /\ UNCHANGED <<airports, routes>>
           ELSE /\ airports' = (airports \ {airport}) \cup {name}
                /\ routes' = [r \in DOMAIN routes |->
                                 [routes[r] EXCEPT
                                     !.source = Renamed(@, airport, name),
                                     !.destination = Renamed(@, airport, name)]]
                /\ resp' = Reply("airport_update", actor, "ok", NoError, 0, NoKey)
    /\ cache' = IF resp'.status \in {"created", "ok"}
                THEN invalidate_airport_cache(cache) ELSE cache

\* POST /airplane-type/: AirplaneType.name is unique.
AirplaneTypePost(actor, name) ==
    /\ UNCHANGED <<users, now, airports, routes, crew, airplanes, flights, orders, tickets, tx>>
    /\ IF ~IsAdminOrAuthenticatedReadOnly(actor, "POST")
       THEN /\ resp' = Reply("airplane_type_create", actor, Denied(actor), NoError,
                             0, NoKey)
            /\ UNCHANGED airplane_types
       ELSE IF name \in airplane_types
       THEN /\ resp' = Reply("airplane_type_create", actor, "invalid",
                             Invalid("name", "unique", 0), 0, NoKey)
            /\ UNCHANGED airplane_types
       ELSE /\ airplane_types' = airplane_types \cup {name}
            /\ resp' = Reply("airplane_type_create", actor, "created", NoError, 0, NoKey)
    /\ cache' = IF resp'.status \in {"created", "ok"}
                THEN invalidate_airplane_type_cache(cache) ELSE cache

\* PUT/PATCH /airplane-type/{id}/.
AirplaneTypeUpdate(actor, method, type, data) ==
    /\ UNCHANGED <<users, now, airports, routes, crew, airplanes, flights, orders, tickets, tx>>
    /\ LET required == RequiredFields(method, {"name"}, data)
           name == IF "name" \in DOMAIN data THEN data["name"] ELSE type
       IN  IF ~IsAdminOrAuthenticatedReadOnly(actor, method)
           THEN /\ resp' = Reply("airplane_type_update", actor, Denied(actor), NoError,
                                 0, NoKey)
                /\ UNCHANGED airplane_types
           ELSE IF type \notin airplane_types
           THEN /\ resp' = Reply("airplane_type_update", actor, "not_found", NoError,
                                 0, NoKey)
                /\ UNCHANGED airplane_types
           ELSE IF required.kind # "ok"
           THEN /\ resp' = Reply("airplane_type_update", actor, "invalid", required,
                                 0, NoKey)
                /\ UNCHANGED airplane_types
           ELSE IF name \in airplane_types \ {type}
           THEN /\ resp' = Reply("airplane_type_update", actor, "invalid",
                                 Invalid("name", "unique", 0), 0, NoKey)
                /\ UNCHANGED airplane_types
           ELSE /\ airplane_types' = (airplane_types \ {type}) \cup {name}
                /\ resp' = Reply("airplane_type_update", actor, "ok", NoError, 0, NoKey)
    /\ cache' = IF resp'.status \in {"created", "ok"}
                THEN invalidate_airplane_type_cache(cache) ELSE cache

\* POST /airplane/.
AirplanePost(actor, data) ==
    /\ UNCHANGED <<users, now, airplane_types, crew, airports, routes, flights, orders,
                   tickets, tx>>
    /\ LET required == RequiredFields("POST", AirplaneFields, data)
       IN  IF ~IsAdminOrAuthenticatedReadOnly(actor, "POST")
           THEN /\ resp' = Reply("airplane_create", actor, Denied(actor), NoError,
                                 0, NoKey)
                /\ UNCHANGED airplanes
           ELSE IF required.kind # "ok"
           THEN /\ resp' = Reply("airplane_create", actor, "invalid", required, 0, NoKey)
                /\ UNCHANGED airplanes
           ELSE /\ NewId(airplanes) <= MaxAirplanes
                /\ airplanes' = airplanes @@ (NewId(airplanes) :> data)
                /\ resp' = Reply("airplane_create", actor, "created", NoError, 0, NoKey)
    /\ cache' = IF resp'.status \in {"created", "ok"}
                THEN invalidate_airplane_cache(cache) ELSE cache

\* POST /crew/.
CrewPost(actor, data) ==
    /\ UNCHANGED <<users, now, airplane_types, airports, routes, airplanes, flights, orders,
                   tickets, tx>>
    /\ LET required == RequiredFields("POST", {"last_name"}, data)
       IN  IF ~IsAdminOrAuthenticatedReadOnly(actor, "POST")
           THEN /\ resp' = Reply("crew_create", actor, Denied(actor), NoError, 0, NoKey)
                /\ UNCHANGED crew
           ELSE IF required.kind # "ok"
           THEN /\ resp' = Reply("crew_create", actor, "invalid", required, 0, NoKey)
                /\ UNCHANGED crew
           ELSE /\ NewId(crew) \in CrewIds
                /\ crew' = crew @@ (NewId(crew) :> data)
                /\ resp' = Reply("crew_create", actor, "created", NoError, 0, NoKey)
    /\ cache' = IF resp'.status \in {"created", "ok"}
                THEN invalidate_crew_cache(cache) ELSE cache

\* PUT/PATCH /crew/{id}/.
CrewUpdate(actor, method, member, data) ==
    /\ UNCHANGED <<users, now, airplane_types, airports, routes, airplanes, flights, orders,
                   tickets, tx>>
    /\ LET required == RequiredFields(method, {"last_name"}, data)
       IN  IF ~IsAdminOrAuthenticatedReadOnly(actor, method)
           THEN /\ resp' = Reply("crew_update", actor, Denied(actor), NoError, 0, NoKey)
                /\ UNCHANGED crew
           ELSE IF member \notin DOMAIN crew
           THEN /\ resp' = Reply("crew_update", actor, "not_found", NoError, 0, NoKey)
                /\ UNCHANGED crew
           ELSE IF required.kind # "ok"
           THEN /\ resp' = Reply("crew_update", actor, "invalid", required, 0, NoKey)
                /\ UNCHANGED crew
           ELSE /\ crew' = [crew EXCEPT ![member] = Merge(@, data)]
                /\ resp' = Reply("crew_update", actor, "ok", NoError, 0, NoKey)
    /\ cache' = IF resp'.status \in {"created", "ok"}
                THEN invalidate_crew_cache(cache) ELSE cache

\* The permission class of the viewset that serves a kind of entity.
Kinds ==
    {"airport", "airplane_type", "airplane", "crew", "route", "flight", "order",
     "ticket"}

permission_classes(kind, actor, method) ==
    IF kind = "flight" THEN IsAdminOrReadOnly(actor, method)
    ELSE IF kind \in {"order", "ticket"}
    THEN IsAdminOrAuthenticatedCreateOnly(actor, method)
    ELSE IsAdminOrAuthenticatedReadOnly(actor, method)

\* BaseViewSet mixes in create, list, retrieve and update, and no destroy:
\* the router binds no handler to DELETE, which is answered 405 once the
\* permission check, which runs first, has let the request through.
BaseViewSet_handler(method) ==
    IF method \in {"GET", "POST", "PUT", "PATCH"} THEN "handled"
    ELSE "method_not_allowed"

\* DELETE /<kind>/{id}/.
Delete(actor, kind) ==
    /\ UNCHANGED <<users, now, airplane_types, crew, cache, airports, routes, airplanes,
                   flights, orders, tickets, tx>>
    /\ resp' = Reply("delete", actor,
                     IF ~permission_classes(kind, actor, "DELETE") THEN Denied(actor)
                     ELSE BaseViewSet_handler("DELETE"),
                     NoError, 0, <<kind>>)

(***************************************************************************)
(* airport/views.py: reads of Order and Ticket.  get_queryset narrows the  *)
(* rows to the actor's own unless the actor is staff; retrieve looks the   *)
(* id up in that queryset and answers 404 when it is not there.            *)
(***************************************************************************)
\* OrderViewSet.get_queryset with the filter on the user applied to staff
\* as well.
OrderViewSet_get_queryset_own(actor) ==
    {o \in DOMAIN orders : orders[o].user = actor}

OrderViewSet_get_queryset(actor) ==
    IF ~is_staff(actor) THEN {o \in DOMAIN orders : orders[o].user = actor}
    ELSE DOMAIN orders

\* TicketViewSet.get_queryset without the filter on the order's user.
TicketViewSet_get_queryset_all(actor) == tickets

TicketViewSet_get_queryset(actor) ==
    IF ~is_staff(actor)
    THEN {t \in tickets : t.order \in DOMAIN orders /\ orders[t.order].user = actor}
    ELSE tickets

\* GET /order/.
OrderList(actor) ==
    /\ UNCHANGED <<users, now, airplane_types, crew, cache, airports, routes, airplanes,
                   flights, orders, tickets, tx>>
    /\ resp' = IF ~IsAdminOrAuthenticatedCreateOnly(actor, "GET")
               THEN Reply("order_list", actor, Denied(actor), NoError, 0, NoKey)
               ELSE ReplyRows("order_list", actor, "ok", NoKey,
                              OrderViewSet_get_queryset(actor))

\* GET /order/{id}/.
OrderRetrieve(actor, order) ==
    /\ UNCHANGED <<users, now, airplane_types, crew, cache, airports, routes, airplanes,
                   flights, orders, tickets, tx>>
    /\ resp' = IF ~IsAdminOrAuthenticatedCreateOnly(actor, "GET")
               THEN Reply("order_retrieve", actor, Denied(actor), NoError, 0, <<order>>)
               ELSE IF order \notin OrderViewSet_get_queryset(actor)
               THEN Reply("order_retrieve", actor, "not_found", NoError, 0, <<order>>)
               ELSE ReplyRows("order_retrieve", actor, "ok", <<order>>, {order})

\* GET /ticket/.
TicketList(actor) ==
    /\ UNCHANGED <<users, now, airplane_types, crew, cache, airports, routes, airplanes,
                   flights, orders, tickets, tx>>
    /\ resp' = IF ~IsAdminOrAuthenticatedCreateOnly(actor, "GET")
               THEN Reply("ticket_list", actor, Denied(actor), NoError, 0, NoKey)
               ELSE ReplyRows("ticket_list", actor, "ok", NoKey,
                              TicketViewSet_get_queryset(actor))

\* GET /ticket/{id}/.
TicketRetrieve(actor, ticket) ==
    /\ UNCHANGED <<users, now, airplane_types, crew, cache, airports, routes, airplanes,
                   flights, orders, tickets, tx>>
    /\ resp' = IF ~IsAdminOrAuthenticatedCreateOnly(actor, "GET")
               THEN Reply("ticket_retrieve", actor, Denied(actor), NoError, 0,
                          <<ticket>>)
               ELSE IF ticket \notin TicketViewSet_get_queryset(actor)
               THEN Reply("ticket_retrieve", actor, "not_found", NoError, 0, <<ticket>>)
               ELSE ReplyRows("ticket_retrieve", actor, "ok", <<ticket>>, {ticket})

\* The data of an order update: tickets, when the request supplies it.
OrderUpdateData ==
    UNION {[S -> {p \in OrderPayloads : Len(p) <= 1}] : S \in SUBSET {"tickets"}}

\* PUT/PATCH /order/{id}/: permission, the lookup of the id in
\* get_queryset, OrderSerializer validation, then ModelSerializer.update,
\* which refuses nested writes (AssertionError) and otherwise saves the
\* instance; post_save purges the order namespaces.
OrderUpdate(actor, method, order, data) ==
    /\ UNCHANGED <<users, now, airplane_types, crew, airports, routes, airplanes, flights,
                   orders, tickets, tx>>
    /\ LET required == RequiredFields(method, {"tickets"}, data)
       IN  IF ~IsAdminOrAuthenticatedCreateOnly(actor, method)
           THEN resp' = Reply("order_update", actor, Denied(actor), NoError, 0,
                              <<order>>)
           ELSE IF order \notin OrderViewSet_get_queryset(actor)
           THEN resp' = Reply("order_update", actor, "not_found", NoError, 0, <<order>>)
           ELSE IF required.kind # "ok"
           THEN resp' = Reply("order_update", actor, "invalid", required, 0, <<order>>)
           ELSE IF "tickets" \in DOMAIN data
           THEN LET v == OrderSerializer_is_valid(data["tickets"])
                IN  IF v.kind = "invalid"
                    THEN resp' = Reply("order_update", actor, "invalid", v.err, v.idx,
                                       <<order>>)
                    ELSE IF v.kind = "raise"
                    THEN resp' = Reply("order_update", actor, "server_error", v.err,
                                       v.idx, <<order>>)
                    ELSE resp' = Reply("order_update", actor, "server_error",
                                       Raise("AssertionError"), 0, <<order>>)
           ELSE resp' = Reply("order_update", actor, "ok", NoError, 0, <<order>>)
    /\ cache' = IF resp'.status \in {"created", "ok"}
                THEN invalidate_order_cache(cache) ELSE cache

(***************************************************************************)
(* airport/models.py, airport/admin.py: Airplane.delete(), as the admin    *)
(* site offers it.  Flight.airplane and Ticket.flight are CASCADE foreign  *)
(* keys: the flights of the airplane and their tickets are deleted with    *)
(* it, and post_delete is sent for every deleted row, so the receivers of  *)
(* Flight and Ticket run as well as the receiver of Airplane.              *)
(***************************************************************************)
Airplane_delete(airplane) ==
    /\ airplane \in DOMAIN airplanes
    /\ UNCHANGED <<users, now, airplane_types, crew, airports, routes, orders, tx>>
    /\ LET gone == {f \in DOMAIN flights : flights[f].airplane = airplane}
           sold == {t \in tickets : t.flight \in gone}
           c1 == IF sold # {} THEN invalidate_ticket_cache(cache) ELSE cache
           c2 == IF gone # {} THEN invalidate_flight_cache(c1) ELSE c1
       IN  /\ airplanes' = [a \in DOMAIN airplanes \ {airplane} |-> airplanes[a]]
           /\ flights' = [f \in DOMAIN flights \ gone |-> flights[f]]
           /\ tickets' = tickets \ sold
           /\ cache' = invalidate_airplane_cache(c2)
    /\ resp' = Reply("airplane_delete", "admin", "deleted", NoError, 0, NoKey)

(***************************************************************************)
(* accounts/models.py, accounts/serializers.py, accounts/views.py: users.  *)
(* A string is a sequence of characters.  Of a user the model keeps email, *)
(* first_name, last_name and is_staff; a password is kept as its length.   *)
(***************************************************************************)
MinPasswordLength == 8

\* str.lower(), character by character.
lower(s) ==
    [i \in DOMAIN s |->
        CASE s[i] = "A" -> "a" [] s[i] = "B" -> "b" [] s[i] = "X" -> "x"
          [] s[i] = "Y" -> "y" [] OTHER -> s[i]]

\* str.isalpha(): not empty and letters only.
isalpha(s) ==
    /\ Len(s) > 0
    /\ \A i \in DOMAIN s : s[i] \in {"a", "b", "x", "y", "A", "B", "X", "Y"}

\* str.strip(): without the whitespace at either end.
RECURSIVE strip(_)
strip(s) ==
    IF Len(s) = 0 THEN s
    ELSE IF s[1] = " " THEN strip(Tail(s))
    ELSE IF s[Len(s)] = " " THEN strip(SubSeq(s, 1, Len(s) - 1))
    ELSE s

\* BaseUserManager.normalize_email, which _create_user calls: the part after
\* the last "@" is lowercased, the part before it is kept as it is.
normalize_email(email) ==
    LET ats == {i \in DOMAIN email : email[i] = "@"}
    IN  IF ats = {} THEN email
        ELSE LET at == CHOOSE i \in ats : \A j \in ats : j <= i
             IN  SubSeq(email, 1, at) \o lower(SubSeq(email, at + 1, Len(email)))

\* email__iexact.
iexact(a, b) == lower(a) = lower(b)

\* User.clean.
User_clean(user) ==
    IF Len(user.first_name) = 0 \/ Len(user.last_name) = 0
    THEN Invalid("first_name", "required", 0)
    ELSE NoError

\* Model.full_clean as User.save calls it: clean_fields (no field may be
\* blank), clean(), then validate_unique on email, which compares exactly
\* and leaves the row being saved out.
User_full_clean(user, except) ==
    IF Len(user.email) = 0 THEN Invalid("email", "blank", 0)
    ELSE IF Len(user.first_name) = 0 THEN Invalid("first_name", "blank", 0)
    ELSE IF Len(user.last_name) = 0 THEN Invalid("last_name", "blank", 0)
    ELSE IF User_clean(user).kind # "ok" THEN User_clean(user)
    ELSE IF \E u \in DOMAIN users \ except : users[u].email = user.email
    THEN Invalid("email", "unique", 0)
    ELSE NoError

\* The primary key of a new user row.
NewUser == CHOOSE n \in {"new1", "new2", "new3"} : n \notin DOMAIN users

\* UserManager.create_user and _create_user: the outcome is the error
\* raised or the row that user.save() writes.
UserManager_create_user(email, password, first_name, last_name, staff) ==
    IF password = 0 THEN [err |-> Invalid("password", "required", 0), user |-> <<>>]
    ELSE IF Len(email) = 0 THEN [err |-> Invalid("email", "required", 0), user |-> <<>>]
    ELSE LET user == [email |-> normalize_email(email), first_name |-> first_name,
                      last_name |-> last_name, is_staff |-> staff]
         IN  [err |-> User_full_clean(user, {}), user |-> user]

\* User.objects.create_user(...) called directly, as the tests and the
\* management commands do; is_staff is an extra field the caller may pass.
CreateUser(email, password, first_name, last_name, staff) ==
    /\ Cardinality(DOMAIN users) < MaxUsers
    /\ UNCHANGED <<now, airplane_types, crew, cache, airports, routes, airplanes,
                   flights, orders, tickets, tx>>
    /\ LET made == UserManager_create_user(email, password, first_name, last_name,
                                           staff)
       IN  IF made.err.kind # "ok"
           THEN /\ resp' = Reply("create_user", "admin", "invalid", made.err, 0,
                                 <<email>>)
                /\ UNCHANGED users
           ELSE /\ users' = users @@ (NewUser :> made.user)
                /\ resp' = Reply("create_user", "admin", "created", NoError, 0,
                                 <<email>>)

\* user.<field> = value; user.save() on an existing row, as the admin site
\* and the shell do: save() runs full_clean() and writes the row.
User_save(user, changes) ==
    /\ user \in DOMAIN users
    /\ UNCHANGED <<now, airplane_types, crew, cache, airports, routes, airplanes,
                   flights, orders, tickets, tx>>
    /\ LET row == Merge(users[user], changes)
           e == User_full_clean(row, {user})
       IN  IF e.kind # "ok"
           THEN /\ resp' = Reply("user_save", user, "invalid", e, 0, <<row.email>>)
                /\ UNCHANGED users
           ELSE /\ users' = [users EXCEPT ![user] = row]
                /\ resp' = Reply("user_save", user, "ok", NoError, 0, <<row.email>>)

\* UserSerializer.Meta: the fields of a payload and those that are read only.
UserFields == {"email", "first_name", "last_name", "password", "is_staff"}

\* read_only_fields without is_staff.
read_only_fields_id == {"id"}

read_only_fields == {"id", "is_staff"}

\* UserSerializer.validate_email.
validate_email(instance, value) ==
    IF \E u \in DOMAIN users : iexact(users[u].email, lower(value))
    THEN IF instance # {} /\ \A u \in instance : lower(users[u].email) = lower(value)
         THEN NoError
         ELSE Invalid("email", "exists", 0)
    ELSE NoError

\* The email field: the UniqueValidator that ModelSerializer derives from
\* unique=True (an exact match on another row), then validate_email.
UserSerializer_email(instance, value) ==
    IF Len(value) = 0 THEN Invalid("email", "blank", 0)
    ELSE IF \E u \in DOMAIN users \ instance : users[u].email = value
    THEN Invalid("email", "unique", 0)
    ELSE validate_email(instance, value)

\* A name field: CharField trims the value and refuses a blank one, then
\* validate_first_name / validate_last_name want letters only.
UserSerializer_name(field, value) ==
    IF Len(strip(value)) = 0 THEN Invalid(field, "blank", 0)
    ELSE IF ~isalpha(strip(value)) THEN Invalid(field, "letters", 0)
    ELSE NoError

\* The password field: required, not blank, validate_password.
UserSerializer_password(value) ==
    IF value = 0 THEN Invalid("password", "blank", 0)
    ELSE IF value < MinPasswordLength
    THEN Invalid("password", "too_short", MinPasswordLength)
    ELSE NoError

\* UserSerializer.run_validation: the writable fields in the order of
\* Meta.fields; a field that is read only is not read from the payload; a
\* full write must supply every writable field.  The first error is kept.
UserSerializer_run_validation(instance, method, data) ==
    LET writable == UserFields \ read_only_fields
        checks == <<"email", "first_name", "last_name", "password">>
        check(k) ==
            IF k \notin data.fields
            THEN IF method = "PATCH" THEN NoError ELSE Invalid(k, "required", 0)
            ELSE IF k = "email" THEN UserSerializer_email(instance, data.v.email)
            ELSE IF k = "password" THEN UserSerializer_password(data.v.password)
            ELSE UserSerializer_name(k, data.v[k])
        failed == {i \in DOMAIN checks : check(checks[i]).kind # "ok"}
    IN  IF failed = {} THEN NoError
        ELSE check(checks[CHOOSE i \in failed : \A j \in failed : i <= j])

\* validated_data: the supplied writable fields, the names trimmed.
validated_data(data) ==
    [k \in (data.fields \cap (UserFields \ read_only_fields)) |->
        IF k \in {"first_name", "last_name"} THEN strip(data.v[k]) ELSE data.v[k]]

\* POST /register/ (CreateUserView, AllowAny): UserSerializer validation,
\* then create() -> User.objects.create_user(**validated_data).
Register(data) ==
    /\ Cardinality(DOMAIN users) < MaxUsers
    /\ UNCHANGED <<now, airplane_types, crew, cache, airports, routes, airplanes,
                   flights, orders, tickets, tx>>
    /\ LET v == UserSerializer_run_validation({}, "POST", data)
           attrs == validated_data(data)
           made == UserManager_create_user(
                       attrs["email"], attrs["password"], attrs["first_name"],
                       attrs["last_name"],
                       IF "is_staff" \in DOMAIN attrs THEN attrs["is_staff"] ELSE FALSE)
       IN  IF v.kind # "ok"
           THEN /\ resp' = Reply("register", "anon", "invalid", v, 0, <<data>>)
                /\ UNCHANGED users
           ELSE IF made.err.kind # "ok"
           THEN /\ resp' = Reply("register", "anon", "server_error",
                                 Raise("ValidationError"), 0, <<data>>)
                /\ UNCHANGED users
           ELSE /\ users' = users @@ (NewUser :> made.user)
                /\ resp' = Reply("register", "anon", "created", NoError, 0, <<data>>)

\* PUT/PATCH /me/ (ManageUserView, IsAuthenticated): get_object is the
\* requesting user; UserSerializer validation, then update(), which sets
\* the validated fields on the instance and calls save().
ProfileUpdate(actor, method, data) ==
    /\ UNCHANGED <<now, airplane_types, crew, cache, airports, routes, airplanes,
                   flights, orders, tickets, tx>>
    /\ IF actor \notin DOMAIN users
       THEN /\ resp' = Reply("profile_update", actor, "unauthenticated", NoError, 0,
                             <<data>>)
            /\ UNCHANGED users
       ELSE LET v == UserSerializer_run_validation({actor}, method, data)
                attrs == validated_data(data)
                row == [k \in DOMAIN users[actor] |->
                           IF k \in DOMAIN attrs THEN attrs[k] ELSE users[actor][k]]
                e == User_full_clean(row, {actor})
            IN  IF v.kind # "ok"
                THEN /\ resp' = Reply("profile_update", actor, "invalid", v, 0, <<data>>)
                     /\ UNCHANGED users
                ELSE IF e.kind # "ok"
                THEN /\ resp' = Reply("profile_update", actor, "server_error",
                                      Raise("ValidationError"), 0, <<data>>)
                     /\ UNCHANGED users
                ELSE /\ users' = [users EXCEPT ![actor] = row]
                     /\ resp' = Reply("profile_update", actor, "ok", NoError, 0,
                                      <<data>>)

\* perform_create taking the owner from the payload.
perform_create_payload_user(actor, data) == data.user

\* OrderViewSet.perform_create: serializer.save(user=self.request.user); the
\* keyword overrides whatever the payload holds.
perform_create_user(actor, data) == actor

\* OrderViewSet.perform_create on a serializer that has validated data: the
\* order is saved for the requesting user and the tickets are inserted
\* (OrderSerializer.create).  OrderSerializer has no user field, so a user
\* named in the payload is not part of validated_data.
OrderViewSet_perform_create(actor, data) ==
    /\ is_authenticated(actor)
    /\ NewOrderId(orders) <= MaxOrders
    /\ Cardinality(tickets) + Len(data.tickets) <= MaxTickets
    /\ UNCHANGED <<users, now, airplane_types, crew, airports, routes, airplanes,
                   flights, tx>>
    /\ LET saved == OrderSerializer_create(perform_create_user(actor, data),
                                           data.tickets)
       IN  /\ orders' = saved.orders
           /\ tickets' = saved.tickets
           /\ resp' = Reply("order_perform_create", actor,
                            IF saved.ok THEN "created" ELSE "server_error",
                            IF saved.ok THEN NoError ELSE Raise("IntegrityError"),
                            0, <<data.user>>)
           /\ cache' = IF saved.tickets # tickets
                       THEN invalidate_ticket_cache(invalidate_order_cache(cache))
                       ELSE invalidate_order_cache(cache)

\* total_seats as the sum of rows and seats_in_row.
Airplane_total_seats_sum(airplane) == airplane.rows + airplane.seats_in_row

\* Airplane.total_seats.
Airplane_total_seats(airplane) == airplane.rows * airplane.seats_in_row

\* Flight.available_seats: self.airplane.total_seats - self.tickets.count().
Flight_available_seats(flight) ==
    Airplane_total_seats(airplanes[flights[flight].airplane])
        - Cardinality({t \in tickets : t.flight = flight})

\* The clock: timezone.now() advances between requests.
Tick ==
    /\ now < MaxNow
    /\ now' = now + 1
    /\ UNCHANGED <<airports, routes, airplanes, flights, orders, tickets, resp, tx,
                   airplane_types, crew, cache, users>>

(***************************************************************************)
(* The database the requests start from: two airports and a route between  *)
(* them, two airplanes of the largest size, a flight that can still be     *)
(* booked and one about to leave, one order per regular user, no ticket,   *)
(* no request in progress.                                                 *)
(***************************************************************************)
InitDb ==
    /\ now = 0
    /\ airports = {1, 2}
    /\ routes = (1 :> [source |-> 1, destination |-> 2, distance |-> MaxDistance - 1])
    /\ airplanes = [a \in AirplaneIds |-> [rows |-> MaxRows, seats_in_row |-> MaxSeats]]
    /\ flights = (1 :> [airplane |-> 1,
                        departure_time |-> MinimumTimeBeforeDeparture + 1,
                        arrival_time |-> MinimumTimeBeforeDeparture + 2])
              @@ (2 :> [airplane |-> 2,
                        departure_time |-> 1,
                        arrival_time |-> MinimumTimeBeforeDeparture + 1])
    /\ orders = (1 :> [user |-> "user1"]) @@ (2 :> [user |-> "user2"])
    /\ tickets = {}
    /\ resp = NoResp
    /\ tx = [conn |-> [p \in Procs |-> Idle], requests |-> <<>>]
    /\ airplane_types = {1}
    /\ crew = (1 :> [last_name |-> "a"])
    /\ users = [a \in Actors \ {"anon"} |->
                  [email |-> <<IF a = "admin" THEN "b" ELSE "a", "@",
                              IF a = "user2" THEN "y" ELSE "x">>,
                   first_name |-> <<"a">>, last_name |-> <<"a">>,
                   is_staff |-> is_staff(a)]]

\* The cache holds no entry.
Init == InitDb /\ cache = {}

\* Every namespace holds entries: each cached read-view has been served.
InitCache == InitDb /\ cache = Namespaces

Next ==
    \/ Tick
    \/ \E actor \in Actors, tickets_data \in OrderPayloads :
           OrderPost(actor, tickets_data)
    \/ \E actor \in Actors, data \in TicketInputs : TicketPost(actor, data)
    \/ \E row \in RowInputs, seat \in SeatInputs, flight \in DOMAIN flights,
          order \in DOMAIN orders :
           Ticket_full_clean_save(row, seat, flight, order)

Spec == Init /\ [][Next]_vars

\* The model-level write path alone, with the clock.
NextClean ==
    \/ Tick
    \/ \E row \in RowInputs, seat \in SeatInputs, flight \in DOMAIN flights,
          order \in DOMAIN orders :
           Ticket_full_clean_save(row, seat, flight, order)

SpecClean == Init /\ [][NextClean]_vars

\* Airplane updates, flights moved to another airplane, and tickets.
NextFleet ==
    \/ \E actor \in Actors, method \in {"PUT", "PATCH"}, airplane \in AirplaneIds,
          data \in AirplaneData :
           AirplaneUpdate(actor, method, airplane, data)
    \/ \E actor \in Actors, flight \in DOMAIN flights, airplane \in AirplaneIds :
           FlightUpdate(actor, "PUT", flight, Merge(flights[flight],
                                                    [airplane |-> airplane]))
    \/ \E row \in RowInputs, seat \in SeatInputs, flight \in DOMAIN flights,
          order \in DOMAIN orders :
           Ticket_full_clean_save(row, seat, flight, order)
    \/ \E actor \in {"user1", "admin"}, method \in {"PUT", "PATCH"},
          ticket \in [flight : {1}, row : 1 .. MaxRows,
                      seat : 1 .. MaxSeats, order : DOMAIN orders],
          data \in TicketData :
           TicketUpdate(actor, method, ticket, data)

SpecFleet == Init /\ [][NextFleet]_vars

\* Flight writes.
NextFlight ==
    \/ \E actor \in Actors, data \in FlightData : FlightPost(actor, data)
    \/ \E actor \in Actors, method \in {"PUT", "PATCH"}, flight \in FlightIds,
          data \in FlightData :
           FlightUpdate(actor, method, flight, data)

SpecFlight == Init /\ [][NextFlight]_vars

\* Route writes, through the API and through the model.
NextRoute ==
    \/ \E name \in AirportIds : AirportPost("admin", name)
    \/ \E actor \in {"user1", "admin"}, data \in RouteData : RoutePost(actor, data)
    \/ \E actor \in {"user1", "admin"}, method \in {"PUT", "PATCH"},
          route \in RouteIds, data \in RouteData :
           RouteUpdate(actor, method, route, data)
    \/ \E source \in airports, destination \in airports, distance \in Distances :
           Route_full_clean_save(source, destination, distance)

SpecRoute == Init /\ [][NextRoute]_vars

\* What each kind of actor may read and create, next to model-level route
\* writes.
NextAccess ==
    \/ \E actor \in Actors : AirportRead(actor)
    \/ \E actor \in Actors, name \in AirportIds : AirportPost(actor, name)
    \/ \E actor \in Actors : OrderRead(actor)
    \/ \E source \in airports, destination \in airports, distance \in Distances :
           Route_full_clean_save(source, destination, distance)

SpecAccess == Init /\ [][NextAccess]_vars

\* Order creations that overlap in time.
CreatePayloads ==
    UNION {[1 .. n -> [flight : {1, 2}, row : 1 .. MaxRows, seat : 1 .. MaxSeats]] :
           n \in 1 .. MaxOrderTickets}

NextCreate ==
    \/ \E p \in Procs, user \in {"user1", "admin"}, tickets_data \in CreatePayloads :
           CreateBegin(p, user, tickets_data)
    \/ \E p \in Procs : CreateInsert(p)
    \/ \E p \in Procs : CreateCommit(p)
    \/ \E p \in Procs : CreateDeadlock(p)

SpecCreate == Init /\ [][NextCreate]_vars

\* The writes of the catalogue (Airport, AirplaneType, Airplane, Crew, Route)
\* by a regular user and by a staff user.  The
\* requests address the newest row of each kind, and the routes they write
\* run from airport 2 to airport 1.
AdminRouteData ==
    {d \in RouteData :
        /\ ("source" \in DOMAIN d) => d["source"] = 2
        /\ ("destination" \in DOMAIN d) => d["destination"] = 1}

Writers == {"user1", "admin"}

NextAdmin ==
    \/ \E actor \in Writers, name \in AirportIds : AirportPost(actor, name)
    \/ \E actor \in Writers, method \in {"PUT", "PATCH"},
          data \in NameData(AirportIds) :
           AirportUpdate(actor, method, MaxAirports, data)
    \/ \E actor \in Writers, name \in AirplaneTypeNames : AirplaneTypePost(actor, name)
    \/ \E actor \in Writers, method \in {"PUT", "PATCH"},
          data \in NameData(AirplaneTypeNames) :
           AirplaneTypeUpdate(actor, method, MaxCatalog, data)
    \/ \E actor \in Writers, data \in AirplaneData : AirplanePost(actor, data)
    \/ \E actor \in Writers, method \in {"PUT", "PATCH"}, data \in AirplaneData :
           AirplaneUpdate(actor, method, MaxAirplanes, data)
    \/ \E actor \in Writers, data \in CrewData : CrewPost(actor, data)
    \/ \E actor \in Writers, method \in {"PUT", "PATCH"}, data \in CrewData :
           CrewUpdate(actor, method, MaxCatalog, data)
    \/ \E actor \in Writers, data \in AdminRouteData : RoutePost(actor, data)
    \/ \E actor \in Writers, method \in {"PUT", "PATCH"}, data \in AdminRouteData :
           RouteUpdate(actor, method, MaxRoutes, data)

SpecAdmin == Init /\ [][NextAdmin]_vars

\* DELETE on every kind by every actor, next to writes that add rows of
\* each kind.
NextDelete ==
    \/ \E actor \in Actors, kind \in Kinds : Delete(actor, kind)
    \/ \E name \in AirportIds : AirportPost("admin", name)
    \/ \E name \in AirplaneTypeNames : AirplaneTypePost("admin", name)
    \/ \E data \in AirplaneData : AirplanePost("admin", data)
    \/ \E data \in CrewData : CrewPost("admin", data)
    \/ \E data \in AdminRouteData : RoutePost("admin", data)
    \/ \E seat \in SeatInputs : Ticket_full_clean_save(1, seat, 1, 1)

SpecDelete == Init /\ [][NextDelete]_vars

\* Reads and updates of orders and tickets by every actor, next to
\* model-level ticket writes for the orders of both regular users.
OrderIds == 1 .. (MaxOrders - 1)
TicketRows ==
    [flight : {1}, row : 1 .. MaxRows, seat : 1 .. MaxSeats, order : 1 .. 2]

NextRead ==
    \/ \E actor \in Actors : OrderList(actor)
    \/ \E actor \in Actors, order \in OrderIds : OrderRetrieve(actor, order)
    \/ \E actor \in Actors, method \in {"PUT", "PATCH"}, order \in OrderIds,
          data \in OrderUpdateData :
           OrderUpdate(actor, method, order, data)
    \/ \E actor \in Actors : TicketList(actor)
    \/ \E actor \in Actors, ticket \in TicketRows : TicketRetrieve(actor, ticket)
    \/ \E row \in RowInputs, seat \in SeatInputs, order \in DOMAIN orders :
           Ticket_full_clean_save(row, seat, 1, order)

SpecRead == Init /\ [][NextRead]_vars

\* One write of each kind by staff on a warm cache, and an order creation
\* statement by statement whose payload may name the same seat twice.
CachePayloads ==
    {<<[flight |-> 1, row |-> 1, seat |-> 1]>>,
     <<[flight |-> 1, row |-> 1, seat |-> 1], [flight |-> 1, row |-> 1, seat |-> 1]>>}

NextCache ==
    \/ \E data \in NameData({1}) : AirportUpdate("admin", "PATCH", 1, data)
    \/ \E data \in NameData({1}) : AirplaneTypeUpdate("admin", "PATCH", 1, data)
    \/ AirplaneUpdate("admin", "PATCH", 1, <<>>)
    \/ CrewUpdate("admin", "PATCH", 1, <<>>)
    \/ RouteUpdate("admin", "PUT", 1, routes[1])
    \/ FlightUpdate("admin", "PUT", 1, flights[1])
    \/ \E order \in DOMAIN orders : OrderUpdate("admin", "PATCH", order, <<>>)
    \/ Ticket_full_clean_save(MaxRows, 1, 1, 1)
    \/ \E tickets_data \in CachePayloads : CreateBegin("p1", "user1", tickets_data)
    \/ CreateInsert("p1")
    \/ CreateCommit("p1")

SpecCache == InitCache /\ [][NextCache]_vars

\* Airplane writes by staff and model-level deletes on a warm cache, next
\* to model-level ticket writes.
NextAirplaneCache ==
    \/ \E data \in AirplaneData : AirplanePost("admin", data)
    \/ \E method \in {"PUT", "PATCH"}, airplane \in 1 .. MaxAirplanes,
          data \in AirplaneData :
           AirplaneUpdate("admin", method, airplane, data)
    \/ \E airplane \in 1 .. MaxAirplanes : Airplane_delete(airplane)
    \/ \E row \in RowInputs, seat \in SeatInputs, flight \in FlightIds :
           Ticket_full_clean_save(row, seat, flight, 1)

SpecAirplaneCache == InitCache /\ [][NextAirplaneCache]_vars

\* The user accounts: the values the requests and the direct calls draw on.
\* user1's own email in two spellings, a new email, and user2's email.
Emails == {<<"a", "@", "x">>, <<"A", "@", "x">>, <<"c", "@", "X">>, <<"a", "@", "y">>}
Names == {<<>>, <<" ">>, <<"b", " ">>}
Passwords == {0, MinPasswordLength - 1, MinPasswordLength}
UserPayload(f, e, n, p, s) ==
    [fields |-> f,
     v |-> [email |-> e, first_name |-> n, last_name |-> <<"a">>, password |-> p,
            is_staff |-> s]]
\* Full payloads (is_staff included), and payloads of a single field.
UserPayloads ==
    LET all == {"email", "first_name", "last_name", "password", "is_staff"}
    IN       {UserPayload(all, e, n, MinPasswordLength, s) :
                  e \in Emails, n \in Names, s \in BOOLEAN}
        \cup {UserPayload(all, <<"c", "@", "X">>, <<"b", " ">>, p, FALSE) :
                  p \in Passwords}
        \cup {UserPayload({"email"}, e, <<>>, 0, FALSE) : e \in Emails}
        \cup {UserPayload({"first_name"}, <<>>, n, 0, FALSE) : n \in Names}
        \cup {UserPayload({"is_staff"}, <<>>, <<>>, 0, s) : s \in BOOLEAN}

NextUsers ==
    \/ \E e \in Emails, p \in {0, MinPasswordLength}, n \in Names :
           CreateUser(e, p, n, <<"a">>, FALSE)
    \/ \E e \in Emails : User_save("user1", [email |-> e])
    \/ \E n \in Names : User_save("user1", [first_name |-> n])
    \/ \E data \in UserPayloads : Register(data)
    \/ \E method \in {"PUT", "PATCH"}, data \in UserPayloads :
           ProfileUpdate("user1", method, data)
    \/ ProfileUpdate("anon", "PATCH", UserPayload({"is_staff"}, <<>>, <<>>, 0, TRUE))

SpecUsers == Init /\ [][NextUsers]_vars

\* Who owns an order: creations for the requesting user, order updates by
\* the owner, by another user and by staff (with and without a user in the
\* payload), and ticket creations.
OwnerTickets == {<<[flight |-> 1, row |-> row, seat |-> 1]>> : row \in 1 .. MaxRows}
OwnerPayloads == [tickets : OwnerTickets, user : {"user1", "user2"}]

NextOwner ==
    \/ \E actor \in {"user1", "admin"}, data \in OwnerPayloads :
           OrderViewSet_perform_create(actor, data)
    \/ \E actor \in {"anon", "user1"}, tickets_data \in OwnerTickets :
           OrderPost(actor, tickets_data)
    \/ \E actor \in {"user1", "admin"}, method \in {"PUT", "PATCH"},
          order \in 1 .. 2, data \in [{"user"} -> {"user1", "user2"}]
                       \cup {d \in OrderUpdateData : DOMAIN d = {}}
                       \cup [{"tickets"} -> OwnerTickets] :
           OrderUpdate(actor, method, order, data)
    \/ \E data \in {d \in TicketInputs : d.flight = 1 /\ d.seat = 1} :
           TicketPost("user1", data)
    \/ \E row \in 1 .. MaxRows, order \in DOMAIN orders :
           Ticket_full_clean_save(row, 1, 1, order)

SpecOwner == Init /\ [][NextOwner]_vars

\* Write requests that are refused next to ones that succeed: registrations
\* and profile updates, airport writes and deletes by every kind of actor,
\* and order creations.
RejectedPayloads ==
    {UserPayload({"email", "first_name", "last_name", "password", "is_staff"},
                 e, n, p, FALSE) :
         e \in {<<"a", "@", "x">>, <<"c", "@", "X">>}, n \in {<<" ">>, <<"b", " ">>},
         p \in Passwords}

NextRejected ==
    \/ \E data \in RejectedPayloads : Register(data)
    \/ \E actor \in {"anon", "user1"}, data \in RejectedPayloads :
           ProfileUpdate(actor, "PUT", data)
    \/ \E actor \in Actors, name \in AirportIds : AirportPost(actor, name)
    \/ \E actor \in Actors, method \in {"PUT", "PATCH"},
          data \in NameData(AirportIds) :
           AirportUpdate(actor, method, MaxAirports, data)
    \/ \E actor \in Actors : Delete(actor, "airport")
    \/ \E actor \in {"anon", "user1"}, tickets_data \in OwnerTickets :
           OrderPost(actor, tickets_data)
    \/ \E data \in OwnerPayloads : OrderViewSet_perform_create("user1", data)

SpecRejected == Init /\ [][NextRejected]_vars

(***************************************************************************)
(* Claims                                                                  *)
(***************************************************************************)
TicketCreationOps == {"order_create", "ticket_create", "ticket_full_clean_save"}

InRange(row, seat, airplane) ==
    /\ 1 <= row /\ row <= airplane.rows
    /\ 1 <= seat /\ seat <= airplane.seats_in_row

TooSoon(flight, t) ==
    flights[flight].departure_time <= t + MinimumTimeBeforeDeparture

\* A seat of an existing flight that a ticket may be created for at time t.
Bookable(key, t) ==
    /\ key[1] \in DOMAIN flights
    /\ InRange(key[2], key[3], airplanes[flights[key[1]].airplane])
    /\ ~TooSoon(key[1], t)

\* C1: of two ticket-creation requests made one after the other by
\* authenticated actors for the same bookable seat, free before the first,
\* exactly one succeeds; and no two persisted tickets share (flight, row,
\* seat).
C1_ExactlyOneSucceeds ==
    /\ []unique_flight_seat(tickets)
    /\ [][(/\ resp.op \in TicketCreationOps
            /\ resp'.op \in TicketCreationOps
            /\ resp'.seq # resp.seq
            /\ is_authenticated(resp.actor)
            /\ is_authenticated(resp'.actor)
            /\ resp.key # NoKey
            /\ resp'.key = resp.key
            /\ Bookable(resp.key, now)
            /\ (resp.status = "created"
                \/ ~SeatTaken(tickets, resp.key[1], resp.key[2], resp.key[3])))
           => ((resp.status = "created") # (resp'.status = "created"))]_vars

\* What the validation rules of the domain (Ticket.clean) say of a payload.
RuleVerdict(d) ==
    IF d.flight \notin DOMAIN flights THEN Invalid("flight", "does_not_exist", 0)
    ELSE Ticket_clean(d.row, d.seat, flights[d.flight].departure_time,
                      airplanes[flights[d.flight].airplane], now)

\* C3: an order request by an authenticated actor in which exactly ticket K
\* fails validation is answered with a validation error that names position
\* K and the failing field, and persists no order and no ticket.
C3_InvalidTicketReported ==
    [][\A actor \in Actors, tickets_data \in OrderPayloads, K \in 1 .. MaxOrderTickets :
        (/\ is_authenticated(actor)
         /\ K \in DOMAIN tickets_data
         /\ RuleVerdict(tickets_data[K]).kind = "invalid"
         /\ \A i \in DOMAIN tickets_data \ {K} :
                RuleVerdict(tickets_data[i]).kind = "ok"
         /\ OrderPost(actor, tickets_data))
        => (/\ resp'.status = "invalid"
            /\ resp'.idx = K
            /\ resp'.field = RuleVerdict(tickets_data[K]).field
            /\ orders' = orders
            /\ tickets' = tickets)]_vars

\* C4: a ticket-creation request by an authenticated actor (an order, a
\* ticket, or the model-level path) for an existing flight that departs at
\* or before now + 10 minutes is rejected with a validation error and
\* persists no order and no ticket, whatever the row and the seat.
C4_LateFlightRejected ==
    [][/\ \A actor \in Actors, tickets_data \in OrderPayloads :
            (/\ is_authenticated(actor)
             /\ \E i \in DOMAIN tickets_data :
                    /\ tickets_data[i].flight \in DOMAIN flights
                    /\ TooSoon(tickets_data[i].flight, now)
             /\ OrderPost(actor, tickets_data))
            => (resp'.status = "invalid" /\ orders' = orders /\ tickets' = tickets)
       /\ (/\ resp'.seq # resp.seq
           /\ resp'.op \in {"ticket_create", "ticket_full_clean_save"}
           /\ is_authenticated(resp'.actor)
           /\ resp'.key[1] \in DOMAIN flights
           /\ TooSoon(resp'.key[1], now))
          => (resp'.status = "invalid" /\ tickets' = tickets)]_vars

C2_AllOrNothing ==
    /\ \A o \in DOMAIN orders \cap DOMAIN tx.requests :
           (\A p \in Procs : ~(InTransaction(p) /\ tx.conn[p].order = o))
           => \A i \in DOMAIN tx.requests[o] :
                  NewTicket(tx.requests[o][i].row, tx.requests[o][i].seat,
                            tx.requests[o][i].flight, o) \in tickets
    /\ \A t \in tickets : t.order \in DOMAIN orders

\* A request failed at its second insert and was rolled back while an order
\* of another request is persisted with its tickets.
C2_Witness ==
    /\ resp.status = "server_error"
    /\ resp.code = "IntegrityError"
    /\ resp.idx = 2
    /\ \E o \in DOMAIN orders \cap DOMAIN tx.requests :
           \A p \in Procs : ~(InTransaction(p) /\ tx.conn[p].order = o)

\* C5: every persisted ticket lies within the rows and seats of the
\* airplane of its flight.
C5_TicketsInRange ==
    \A t \in tickets : InRange(t.row, t.seat, airplanes[flights[t.flight].airplane])

\* C7: a flight create or update request by staff (full or partial) that
\* would leave arrival_time at or before departure_time is rejected with a
\* validation error on arrival_time, and every persisted flight arrives
\* after it departs.
C7_ArrivalAfterDeparture ==
    /\ [](\A f \in DOMAIN flights :
             flights[f].arrival_time > flights[f].departure_time)
    /\ [][\A method \in {"PUT", "PATCH"}, flight \in FlightIds, data \in FlightData :
            (/\ flight \in DOMAIN flights
             /\ RequiredFields(method, FlightFields, data).kind = "ok"
             /\ Merge(flights[flight], data)["arrival_time"]
                    <= Merge(flights[flight], data)["departure_time"]
             /\ FlightUpdate("admin", method, flight, data))
            => (resp'.status = "invalid" /\ resp'.field = "arrival_time")]_vars
    /\ [][\A data \in FlightData :
            (/\ DOMAIN data = FlightFields
             /\ data["arrival_time"] <= data["departure_time"]
             /\ FlightPost("admin", data))
            => (resp'.status = "invalid" /\ resp'.field = "arrival_time")]_vars

\* C8: a route create or update request by staff whose fields are well
\* formed and whose pair is free is rejected on destination when the route
\* it would leave has source = destination, otherwise on distance when its
\* distance exceeds 20000, and otherwise passes; no persisted route is a
\* self-loop or longer than 20000.
C8_RouteValidation ==
    /\ [](\A r \in DOMAIN routes :
             routes[r].source # routes[r].destination
             /\ routes[r].distance <= MaxDistance)
    /\ [][\A method \in {"PUT", "PATCH"}, route \in DOMAIN routes, data \in RouteData :
            LET target == Merge(routes[route], data)
            IN  (/\ RequiredFields(method, RouteFields, data).kind = "ok"
                 /\ target.source \in airports /\ target.destination \in airports
                 /\ ~unique_route(routes, target.source, target.destination, {route})
                 /\ RouteUpdate("admin", method, route, data))
                => IF target.source = target.destination
                   THEN resp'.status = "invalid" /\ resp'.field = "destination"
                   ELSE IF target.distance > MaxDistance
                   THEN resp'.status = "invalid" /\ resp'.field = "distance"
                   ELSE resp'.status = "ok"]_vars
    /\ [][\A data \in RouteData :
            (/\ DOMAIN data = RouteFields
             /\ data["source"] \in airports /\ data["destination"] \in airports
             /\ ~unique_route(routes, data["source"], data["destination"], {})
             /\ RoutePost("admin", data))
            => IF data["source"] = data["destination"]
               THEN resp'.status = "invalid" /\ resp'.field = "destination"
               ELSE IF data["distance"] > MaxDistance
               THEN resp'.status = "invalid" /\ resp'.field = "distance"
               ELSE resp'.status = "created"]_vars

\* C9: no two persisted routes share the ordered pair (source, destination);
\* a create request by staff for a pair that already exists is answered
\* with a uniqueness error whatever its distance is and changes no route.
C9_UniqueRoute ==
    /\ [](\A r1, r2 \in DOMAIN routes :
             (routes[r1].source = routes[r2].source
              /\ routes[r1].destination = routes[r2].destination) => r1 = r2)
    /\ [][(/\ resp'.seq # resp.seq
            /\ resp'.op = "route_create"
            /\ resp'.actor = "admin"
            /\ resp'.key # NoKey
            /\ \E r \in DOMAIN routes : /\ routes[r].source = resp'.key[1]
                                         /\ routes[r].destination = resp'.key[2])
           => (/\ resp'.status = "invalid"
               /\ resp'.code = "unique"
               /\ routes' = routes)]_vars

\* A create request for an existing pair was refused as not unique.
C9_Witness ==
    /\ resp.op = "route_create"
    /\ resp.actor = "admin"
    /\ resp.status = "invalid"
    /\ resp.code = "unique"
    /\ \E r \in DOMAIN routes : /\ routes[r].source = resp.key[1]
                                /\ routes[r].destination = resp.key[2]
                                /\ routes[r].distance # resp.key[3]

\* C10 as stated: for an anonymous actor a read of Airport succeeds, a
\* create on Airport is denied as unauthenticated and persists nothing, and
\* a read of Order is denied as unauthenticated.
C10_AnonymousAsStated ==
    [][(resp'.seq # resp.seq /\ resp'.actor = "anon")
       => /\ (resp'.op = "airport_read") => resp'.status = "ok"
          /\ (resp'.op = "airport_create")
                 => (resp'.status = "unauthenticated" /\ airports' = airports)
          /\ (resp'.op = "order_read") => resp'.status = "unauthenticated"]_vars

\* C10 amended: for an anonymous actor a read of Airport, a create on
\* Airport and a read of Order are each denied as unauthenticated, and the
\* create persists nothing.
C10_AnonymousDenied ==
    [][(/\ resp'.seq # resp.seq
        /\ resp'.actor = "anon"
        /\ resp'.op \in {"airport_read", "airport_create", "order_read"})
       => (resp'.status = "unauthenticated" /\ airports' = airports)]_vars

\* An anonymous read of Airport was answered.
C10_Witness ==
    resp.actor = "anon" /\ resp.op = "airport_read" /\ resp.status = "unauthenticated"

\* The create and update requests on the five kinds of the catalogue.
CatalogueCreates ==
    {"airport_create", "airplane_type_create", "airplane_create", "crew_create",
     "route_create"}
CatalogueUpdates ==
    {"airport_update", "airplane_type_update", "airplane_update", "crew_update",
     "route_update"}
Regular == {a \in Actors : is_authenticated(a) /\ ~is_staff(a)}

\* C11: a create or update request on Airport, AirplaneType, Airplane, Crew
\* or Route by a regular authenticated actor is answered forbidden and
\* changes nothing; a staff actor's request is let through, a create of an
\* airport under a free name succeeds and adds it, and an update of a route
\* that leaves a valid route on a free pair succeeds and is applied.
C11_StaffOnlyWrites ==
    /\ [][(/\ resp'.seq # resp.seq
           /\ resp'.op \in CatalogueCreates \cup CatalogueUpdates
           /\ resp'.actor \in Regular)
          => /\ resp'.status = "forbidden"
             /\ UNCHANGED <<airports, airplane_types, airplanes, crew, routes>>]_vars
    /\ [][(/\ resp'.seq # resp.seq
           /\ resp'.op \in CatalogueCreates \cup CatalogueUpdates
           /\ is_staff(resp'.actor))
          => resp'.status \notin {"forbidden", "unauthenticated"}]_vars
    /\ [][\A name \in AirportIds :
            (name \notin airports /\ AirportPost("admin", name))
            => (resp'.status = "created" /\ name \in airports')]_vars
    /\ [][\A method \in {"PUT", "PATCH"}, data \in AdminRouteData :
            (/\ MaxRoutes \in DOMAIN routes
             /\ RequiredFields(method, RouteFields, data).kind = "ok"
             /\ LET target == Merge(routes[MaxRoutes], data)
                IN  /\ ~unique_route(routes, target.source, target.destination,
                                     {MaxRoutes})
                    /\ Route_clean(target.source, target.destination,
                                   target.distance).kind = "ok"
             /\ RouteUpdate("admin", method, MaxRoutes, data))
            => /\ resp'.status = "ok"
               /\ routes'[MaxRoutes] = Merge(routes[MaxRoutes], data)]_vars

\* C12 as stated: a create request on the five kinds by a regular
\* authenticated actor is let through, and one for an airport under a free
\* name succeeds and adds it; an update request by that actor is answered
\* forbidden.
C12_RegularCreatesAsStated ==
    /\ [][(/\ resp'.seq # resp.seq
           /\ resp'.actor \in Regular
           /\ resp'.op \in CatalogueCreates)
          => resp'.status # "forbidden"]_vars
    /\ [][\A actor \in Regular, name \in AirportIds :
            (name \notin airports /\ AirportPost(actor, name))
            => (resp'.status = "created" /\ name \in airports')]_vars
    /\ [][(/\ resp'.seq # resp.seq
           /\ resp'.actor \in Regular
           /\ resp'.op \in CatalogueUpdates)
          => resp'.status = "forbidden"]_vars

\* C12 amended: a regular authenticated actor may neither create nor update
\* Airport, AirplaneType, Airplane, Crew or Route: either request is
\* answered forbidden and leaves every row of the five kinds as it was.
C12_RegularReadOnly ==
    [][(/\ resp'.seq # resp.seq
        /\ resp'.actor \in Regular
        /\ resp'.op \in CatalogueCreates \cup CatalogueUpdates)
       => /\ resp'.status = "forbidden"
          /\ airports' = airports /\ airplane_types' = airplane_types
          /\ airplanes' = airplanes /\ crew' = crew /\ routes' = routes]_vars

\* A regular user's create of an airport was refused.
C12_Witness ==
    /\ resp.op = "airport_create"
    /\ resp.actor = "user1"
    /\ resp.status = "forbidden"
    /\ airports = {1, 2}

\* C13: a DELETE request on Airport, AirplaneType, Airplane, Crew, Route,
\* Order or Ticket is refused by the permission check for every actor
\* (forbidden, unauthenticated without credentials) and leaves every row in
\* place; no step removes a row of these kinds.
C13_NoDelete ==
    /\ [][(/\ resp'.seq # resp.seq
           /\ resp'.op = "delete"
           /\ resp'.key[1] # "flight")
          => /\ resp'.status = Denied(resp'.actor)
             /\ UNCHANGED <<airports, airplane_types, airplanes, crew, routes,
                            orders, tickets>>]_vars
    /\ [][/\ airports \subseteq airports'
          /\ airplane_types \subseteq airplane_types'
          /\ DOMAIN airplanes \subseteq DOMAIN airplanes'
          /\ DOMAIN crew \subseteq DOMAIN crew'
          /\ DOMAIN routes \subseteq DOMAIN routes'
          /\ DOMAIN orders \subseteq DOMAIN orders'
          /\ tickets \subseteq tickets']_vars

\* Staff asked to delete a ticket while one exists, and was refused.
C13_Witness ==
    /\ resp.op = "delete"
    /\ resp.key = <<"ticket">>
    /\ resp.actor = "admin"
    /\ resp.status = "forbidden"
    /\ tickets # {}

OwnOrders(actor) == {o \in DOMAIN orders : orders[o].user = actor}
OwnTickets(actor) == {t \in tickets : orders[t.order].user = actor}

\* C15: for a regular authenticated actor the list of Order and of Ticket
\* holds exactly the actor's own rows, and a retrieve answers ok with the
\* row when it is the actor's own and not found, with no row, otherwise:
\* for another user's row just as for an id that does not exist.
C15_OwnRowsOnly ==
    [][(resp'.seq # resp.seq /\ resp'.actor \in Regular)
       => /\ (resp'.op = "order_list")
                 => (resp'.status = "ok" /\ resp'.result = OwnOrders(resp'.actor))
          /\ (resp'.op = "ticket_list")
                 => (resp'.status = "ok" /\ resp'.result = OwnTickets(resp'.actor))
          /\ (resp'.op = "order_retrieve")
                 => IF resp'.key[1] \in OwnOrders(resp'.actor)
                    THEN resp'.status = "ok" /\ resp'.result = {resp'.key[1]}
                    ELSE resp'.status = "not_found" /\ resp'.result = {}
          /\ (resp'.op = "ticket_retrieve")
                 => IF resp'.key[1] \in OwnTickets(resp'.actor)
                    THEN resp'.status = "ok" /\ resp'.result = {resp'.key[1]}
                    ELSE resp'.status = "not_found" /\ resp'.result = {}]_vars

\* A regular user asked for an existing ticket of another user's order and
\* was answered not found.
C15_Witness ==
    /\ resp.op = "ticket_retrieve"
    /\ resp.actor = "user1"
    /\ resp.status = "not_found"
    /\ resp.key[1] \in tickets
    /\ orders[resp.key[1].order].user = "user2"

\* C16: a ticket create request on the ticket endpoint by an authenticated
\* actor for a bookable free seat either succeeds and persists the ticket
\* under an order of the actor (the target order is the actor's own), or is
\* rejected with a validation error on the order field and persists nothing
\* (the target order is another user's), for staff as well.
C16_TicketForOwnOrder ==
    [][(/\ resp'.seq # resp.seq
        /\ resp'.op = "ticket_create"
        /\ is_authenticated(resp'.actor)
        /\ Bookable(resp'.key, now)
        /\ ~SeatTaken(tickets, resp'.key[1], resp'.key[2], resp'.key[3]))
       => \/ /\ resp'.status = "created"
             /\ \E t \in tickets' \ tickets :
                    KeyOf(t) = resp'.key /\ orders[t.order].user = resp'.actor
          \/ /\ resp'.status = "invalid"
             /\ resp'.field = "order"
             /\ tickets' = tickets]_vars

C18_ConflictReported ==
    (resp.op \in TicketCreationOps /\ resp.code = "IntegrityError")
    => resp.status = "invalid"

\* C19: the cache is purged only by the step that completes a write
\* successfully (its commit): a step of a request whose transaction is
\* still open purges nothing, and a request that fails purges nothing.
C19_PurgeAfterCommit ==
    /\ [][(cache' # cache)
          => (resp'.seq # resp.seq /\ resp'.status \in {"created", "ok"})]_vars
    /\ [][(resp'.seq # resp.seq /\ resp'.status \notin {"created", "ok"})
          => cache' = cache]_vars

\* C20: after a successful create or update of an entity of kind K no
\* namespace of K's row in the fan-out table holds an entry.
C20_FanOut ==
    [][LET CACHE_MAP ==
            [Airport |-> {"airport_view", "route_view", "flight_view", "ticket_view"},
             AirplaneType |-> {"airplane_type_view", "flight_view", "airplane_view"},
             Airplane |-> {"airplane_view", "flight_view"},
             Crew |-> {"crew_view", "flight_view"},
             Route |-> {"route_view", "flight_view", "ticket_view"},
             Flight |-> {"flight_view", "crew_view"},
             Order |-> {"order_view", "ticket_view"},
             Ticket |-> {"ticket_view", "flight_view", "order_view"}]
        KindOf ==
            [airport_create |-> "Airport", airport_update |-> "Airport",
             airplane_type_create |-> "AirplaneType",
             airplane_type_update |-> "AirplaneType",
             airplane_create |-> "Airplane", airplane_update |-> "Airplane",
             crew_create |-> "Crew", crew_update |-> "Crew",
             route_create |-> "Route", route_update |-> "Route",
             route_full_clean_save |-> "Route",
             flight_create |-> "Flight", flight_update |-> "Flight",
             order_create |-> "Order", order_update |-> "Order",
             ticket_full_clean_save |-> "Ticket", ticket_update |-> "Ticket"]
       IN  (/\ resp'.seq # resp.seq
            /\ resp'.status \in {"created", "ok"}
            /\ resp'.op \in DOMAIN KindOf)
           => cache' \cap CACHE_MAP[KindOf[resp'.op]] = {}]_vars

AirplaneWrites == {"airplane_create", "airplane_update", "airplane_delete"}

C22_EmailLowercased ==
    [][/\ (resp'.op = "create_user" /\ resp'.status = "created")
            => users'[NewUser].email = lower(resp'.key[1])
       /\ (resp'.op = "register" /\ resp'.status = "created")
            => users'[NewUser].email = lower(resp'.key[1].v.email)
       /\ (resp'.op = "profile_update" /\ resp'.status = "ok"
              /\ "email" \in resp'.key[1].fields)
            => users'[resp'.actor].email = lower(resp'.key[1].v.email)
       /\ (resp'.op = "user_save" /\ resp'.status = "ok")
            => users'[resp'.actor].email = lower(resp'.key[1])]_vars

\* C23: no two persisted users have emails that are equal ignoring case; a
\* registration or profile update that would make such a pair is rejected
\* with an error on the email field and leaves the users unchanged.
C23_NoCaseDuplicates ==
    \A u, w \in DOMAIN users :
        u # w => ~iexact(users[u].email, users[w].email)

\* C24: no user whose first_name or last_name is empty after trimming is
\* ever persisted: such a create or update fails on every write path.
C24_NamesNotBlank ==
    \A u \in DOMAIN users :
        Len(strip(users[u].first_name)) > 0 /\ Len(strip(users[u].last_name)) > 0

\* C25: no request to the registration or the profile-update endpoint sets
\* or changes is_staff: a registered user is not staff whatever the payload
\* says, and a profile update leaves every user's is_staff as it was.
C25_StaffFlagUntouched ==
    [][resp'.op \in {"register", "profile_update"}
          => /\ \A u \in DOMAIN users :
                    u \in DOMAIN users' /\ users'[u].is_staff = users[u].is_staff
             /\ \A u \in DOMAIN users' \ DOMAIN users : ~users'[u].is_staff]_vars

\* A profile update whose payload asked for is_staff was accepted and the
\* requesting user is still not staff.
C25_Witness ==
    /\ resp.op = "profile_update" /\ resp.status = "ok"
    /\ "is_staff" \in resp.key[1].fields /\ resp.key[1].v.is_staff
    /\ ~users[resp.actor].is_staff

\* C26: for every ticket input (row, seat, flight, time) Ticket.clean and
\* TicketSerializer.validate give the same verdict, accept or reject, and
\* name the same failing field.
C26_SameVerdict ==
    \A row \in RowInputs, seat \in SeatInputs, flight \in DOMAIN flights :
        LET departure_time == flights[flight].departure_time
            airplane == airplanes[flights[flight].airplane]
            model == Ticket_clean(row, seat, departure_time, airplane, now)
            serializer == TicketSerializer_validate(row, seat, departure_time,
                                                    airplane, now)
        IN  model.kind = serializer.kind /\ model.field = serializer.field

C28_RejectedWritesNothing ==
    [][resp'.status \notin {"created", "ok", "deleted"}
          => UNCHANGED <<users, airports, routes, airplanes, flights, orders,
                         tickets, airplane_types, crew>>]_vars

\* A registration was rejected for its short password after an airport had
\* been created.
C28_Witness ==
    /\ resp.op = "register" /\ resp.status = "invalid"
    /\ resp.field = "password" /\ resp.code = "too_short"
    /\ Cardinality(airports) > 2

C30_NeverOversold ==
    \A f \in DOMAIN flights : Flight_available_seats(f) >= 0

====
